---- MODULE Spec2Model ----
(***************************************************************************)
(* GasFeeController: the gas-fee estimate source chain, the congestion     *)
(* check and the polling scheduler, as a state machine.                    *)
(*                                                                         *)
(* JavaScript runs one task at a time, so every action below is the code   *)
(* that runs between two suspension points (an await of a host function or *)
(* of a network call, or the firing of a timer).  When an awaited call     *)
(* settles, the controller code awaiting it runs in the same step; the     *)
(* caller of fetchGasFeeEstimates, who is outside the controller, takes    *)
(* the outcome in a step of its own.                                       *)
(***************************************************************************)
EXTENDS Integers, Sequences, FiniteSets, TLC

\* ---------------------------------------------------------------- bounds
\* Producer runs (calls of a pollable item's function) in flight at once.
MaxRuns == 2
\* Callers of fetchGasFeeEstimates awaiting its result at once.
MaxDirectCalls == 2
\* Distinct payloads a gas API or the node can answer with.
MaxVal == 2
\* Pending timers that this.intervalId no longer refers to.
MaxOrphanTimers == 1
\* Blocks a fee history is asked for and answered with.
MaxBlocks == 2
\* Blocks in a fee history window handed to the congestion check.
MaxWindow == 3

RunIds == 1..MaxRuns
Vals == 1..MaxVal
\* Chain ids of the networks the host can select, and those among them that
\* the legacy gas price API serves.
Networks == {1, 10}
LegacyNetworks == {1}
\* Priority fees (wei) a block can report at a percentile.
Fees == {0, 10, 11, 100, 109, 110, 1000, 1100}

\* ------------------------------------------------------------ data model
Items == {"gasFeeEstimates", "isNetworkCongested"}

GAS_ESTIMATE_TYPES ==
  [FEE_MARKET |-> "fee-market", LEGACY |-> "legacy",
   ETH_GASPRICE |-> "eth_gasPrice", NONE |-> "none"]

\* The object {} (Record<string, never>).
EmptyObject == [k \in {} |-> 0]

defaultState ==
  [gasFeeEstimates |-> EmptyObject,
   estimatedGasFeeTimeBounds |-> EmptyObject,
   gasEstimateType |-> GAS_ESTIMATE_TYPES.NONE,
   isNetworkCongested |-> FALSE]

\* What the three injected fetchers resolve with, indexed by a payload number.
Eip1559GasFee(prio, fee) ==
  [suggestedMaxPriorityFeePerGas |-> prio, suggestedMaxFeePerGas |-> fee]

GasFeeEstimatesOf(v) ==
  [low |-> Eip1559GasFee(v, 10 * v),
   medium |-> Eip1559GasFee(v + 1, 20 * v),
   high |-> Eip1559GasFee(v + 2, 30 * v),
   estimatedBaseFee |-> 100 * v]

LegacyGasPriceEstimateOf(v) ==
  [low |-> 10 * v, medium |-> 20 * v, high |-> 30 * v]

EthGasPriceEstimateOf(v) == [gasPrice |-> v]

\* calculateTimeEstimate of ./gas-util: a function of its three arguments.
calculateTimeEstimate(maxPriorityFeePerGas, maxFeePerGas, gasFeeEstimates) ==
  [lowerTimeBound |-> maxPriorityFeePerGas, upperTimeBound |-> maxFeePerGas]

\* ------------------------------------------------------- chain id (host)
\* A string is the sequence of its characters.
HexDigits == <<"0", "1", "2", "3", "4", "5", "6", "7", "8", "9",
               "a", "b", "c", "d", "e", "f">>

DigitValue(c) == (CHOOSE i \in 1..Len(HexDigits) : HexDigits[i] = c) - 1

IsDigit(c, radix) == \E i \in 1..radix : HexDigits[i] = c

\* Number.prototype.toString(radix) of a natural number.
RECURSIVE NumberToString(_, _)
NumberToString(n, radix) ==
  IF n < radix THEN <<HexDigits[n + 1]>>
  ELSE NumberToString(n \div radix, radix) \o <<HexDigits[(n % radix) + 1]>>

\* The three shapes of ChainId the host may answer with, and one it must not.
ChainIdShapes == {"hex", "decimal", "number", "other"}

getChainId(shape, n) ==
  CASE shape = "hex" -> [type |-> "string", chars |-> <<"0", "x">> \o NumberToString(n, 16)]
    [] shape = "decimal" -> [type |-> "string", chars |-> NumberToString(n, 10)]
    [] shape = "number" -> [type |-> "number", value |-> n]
    [] OTHER -> [type |-> "undefined"]

\* isHexString of ethereumjs-util: /^0x[0-9A-Fa-f]*$/.
isHexString(chars) ==
  /\ Len(chars) >= 2
  /\ chars[1] = "0"
  /\ chars[2] = "x"
  /\ \A i \in 3..Len(chars) : IsDigit(chars[i], 16)

\* parseInt(string, radix): the leading digits of the radix, after an optional
\* 0x when the radix is 16; NaN (here -1) when there is none.
RECURSIVE ParseDigits(_, _, _, _)
ParseDigits(chars, i, radix, acc) ==
  IF i > Len(chars) \/ ~IsDigit(chars[i], radix) THEN acc
  ELSE ParseDigits(chars, i + 1, radix, acc * radix + DigitValue(chars[i]))

NaN == -1

parseInt(chars, radix) ==
  LET start == IF radix = 16 /\ Len(chars) >= 2 /\ chars[1] = "0" /\ chars[2] = "x"
               THEN 3 ELSE 1
  IN IF start > Len(chars) \/ ~IsDigit(chars[start], radix) THEN NaN
     ELSE ParseDigits(chars, start, radix, 0)

\* A withNormalizedChainId that would read every string as hexadecimal (told
\* apart by C20).
withChainIdReadAsHex(chainId) ==
  IF chainId.type = "string"
  THEN [throws |-> FALSE, value |-> parseInt(chainId.chars, 16)]
  ELSE IF chainId.type = "number"
       THEN [throws |-> FALSE, value |-> chainId.value]
       ELSE [throws |-> TRUE, value |-> NaN]

\* withNormalizedChainId: the number, or "throw" recorded as [throws |-> TRUE].
withNormalizedChainId(chainId) ==
  IF chainId.type = "string"
  THEN IF isHexString(chainId.chars)
       THEN [throws |-> FALSE, value |-> parseInt(chainId.chars, 16)]
       ELSE [throws |-> FALSE, value |-> parseInt(chainId.chars, 10)]
  ELSE IF chainId.type = "number"
       THEN [throws |-> FALSE, value |-> chainId.value]
       ELSE [throws |-> TRUE, value |-> NaN]

\* ------------------------------------------------------- gas API requests
\* The endpoints and the client id the controller is configured with.  A URL
\* is a sequence of pieces: characters, and pieces no replacement looks into.
CHAIN_ID_PLACEHOLDER == "<chain_id>"
legacyAPIEndpoint == <<"http://legacy.endpoint/", CHAIN_ID_PLACEHOLDER>>
EIP1559APIEndpoint == <<"http://eip-1559.endpoint/", CHAIN_ID_PLACEHOLDER>>
clientId == "123"

\* `${number}`: the decimal digits of a number, "NaN" for NaN.
TemplateLiteral(number) ==
  IF number = NaN THEN <<"NaN">> ELSE NumberToString(number, 10)

\* String.prototype.replace(pattern, replacement) with a string pattern: the
\* first occurrence only.
RECURSIVE Replace(_, _, _)
Replace(string, pattern, replacement) ==
  IF string = <<>> THEN <<>>
  ELSE IF Head(string) = pattern THEN replacement \o Tail(string)
  ELSE <<Head(string)>> \o Replace(Tail(string), pattern, replacement)

\* The arguments a source is called with: the two gas APIs get a URL and the
\* client id, fetchEthGasPriceEstimate gets this.ethQuery and no URL.
RequestOf(source, chainId) ==
  CASE source = "feeMarket" ->
         [url |-> Replace(EIP1559APIEndpoint, CHAIN_ID_PLACEHOLDER,
                          TemplateLiteral(chainId)),
          clientId |-> clientId]
    [] source = "legacy" ->
         [url |-> Replace(legacyAPIEndpoint, CHAIN_ID_PLACEHOLDER,
                          TemplateLiteral(chainId)),
          clientId |-> clientId]
    [] OTHER -> EmptyObject

\* ------------------------------------------------ EIP-1559 compatibility
\* What a compatibility function of the host does when called.
NetworkAnswers == {"true", "false", "throw"}
\* "unset": getCurrentAccountEIP1559Compatibility was not configured.
AccountAnswers == {"unset", "true", "false", "throw"}

\* A check whose catch would cover the network's answer only, an account
\* function that throws being read as one that is not configured (told apart
\* by C31).
getEIP1559CompatibilityAccountUncaught(network, account) ==
  IF network = "throw" THEN FALSE
  ELSE (network = "true") /\ (account \in {"unset", "true", "throw"})

getEIP1559Compatibility(network, account) ==
  IF network = "throw" THEN FALSE
  ELSE IF account = "throw" THEN FALSE
  ELSE (network = "true") /\ (account \in {"unset", "true"})

\* Every answer the awaited check can give, over what the host can do.
CompatibilityOutcomes ==
  {getEIP1559Compatibility(network, account) :
     network \in NetworkAnswers, account \in AccountAnswers}

\* ------------------------------------------------------- congestion check
\* A block of a FeeHistory, reduced to its priorityFeesByPercentile map.
PercentileMaps == {EmptyObject} \cup {[p \in {50} |-> f] : f \in Fees}

FeeHistories ==
  UNION {[1..n -> [priorityFeesByPercentile : PercentileMaps]] : n \in 0..MaxWindow}

\* A collection that would count a block without the 50th percentile as a
\* fee of zero (told apart by C33).
PriorityFeesAt50MissingAsZero(blocks) ==
  [i \in 1..Len(blocks) |->
     LET m == blocks[i].priorityFeesByPercentile
     IN IF 50 \in DOMAIN m THEN m[50] ELSE 0]

\* blocks.map(block => block.priorityFeesByPercentile.get(50)).filter(isNumber)
RECURSIVE PriorityFeesAt50(_)
PriorityFeesAt50(blocks) ==
  IF blocks = <<>> THEN <<>>
  ELSE LET m == Head(blocks).priorityFeesByPercentile
       IN (IF 50 \in DOMAIN m THEN <<m[50]>> ELSE <<>>) \o PriorityFeesAt50(Tail(blocks))

\* Array.prototype.sort((a, b) => a - b)
RECURSIVE Insert(_, _)
Insert(x, sorted) ==
  IF sorted = <<>> THEN <<x>>
  ELSE IF x < Head(sorted) THEN <<x>> \o sorted
  ELSE <<Head(sorted)>> \o Insert(x, Tail(sorted))

RECURSIVE SortAscending(_)
SortAscending(numbers) ==
  IF numbers = <<>> THEN <<>>
  ELSE Insert(Head(numbers), SortAscending(Tail(numbers)))

\* The largest power of two that is at most k (k >= 1).
RECURSIVE Pow2Floor(_)
Pow2Floor(k) == IF k < 2 THEN 1 ELSE 2 * Pow2Floor(k \div 2)

\* maxPriorityFee >= minPriorityFee * 1.1 in IEEE-754 binary64, for naturals
\* far below 2^40.  The double 1.1 is 1.1 + 0.4 * 2^-52, so the exact product
\* is 11*min/10 + 0.4*min*2^-52.  When 11*min/10 is no integer the product and
\* its rounding lie strictly between two integers.  When it is an integer K,
\* the product rounds to K exactly when the excess is at most half an ulp of K
\* (a tie goes to K, whose significand is even), that is 4*min <= 5*2^e with
\* 2^e the largest power of two not above K; otherwise it rounds above K.
GeTimesOnePointOne(maxPriorityFee, minPriorityFee) ==
  IF (11 * minPriorityFee) % 10 # 0
  THEN 10 * maxPriorityFee > 11 * minPriorityFee
  ELSE LET K == (11 * minPriorityFee) \div 10
       IN \/ maxPriorityFee > K
          \/ /\ maxPriorityFee = K
             /\ (K = 0 \/ 4 * minPriorityFee <= 5 * Pow2Floor(K))

\* The flag determineWhetherNetworkCongested derives from a fee history.
CongestionOf(blocks) ==
  LET sortedPriorityFees == SortAscending(PriorityFeesAt50(blocks))
  IN IF Len(sortedPriorityFees) > 0
     THEN GeTimesOnePointOne(sortedPriorityFees[Len(sortedPriorityFees)],
                             sortedPriorityFees[1])
     ELSE FALSE

\* Every flag the check can derive, over the fee histories the node can answer.
CongestionOutcomes == {CongestionOf(blocks) : blocks \in FeeHistories}

VARIABLES
  state,            \* this.state: the four fields of GasFeeState
  pollQueue,        \* this.pollQueue
  intervalId,       \* this.intervalId: "undefined", or the timer it names:
                    \*   "live" (pending) or "expired" (already fired)
  orphanTimers,     \* pending timers that this.intervalId no longer names
  batches,          \* the Promise.all of each tick in flight: its unsettled runs
                    \*   and the items whose failure safelyExecute has swallowed
  runs,             \* the producer calls in flight, by slot
  selectedNetwork,  \* the network the host has selected (getChainId, getProvider)
  ethQuery,         \* this.ethQuery: the network its provider talks to
  lastCongestionResult, \* history: the boolean the latest completed call of
                    \*   determineWhetherNetworkCongested returned ({} before any)
  quiesced,         \* history: "destroyed" since destroy() returned and no public
                    \*   method was called, "stopped" since stopPolling() returned
                    \*   and no updateWithAndStartPollingFor was called, else "active"
  unsubscribed,     \* history: the items stopPollingFor has returned for, with
                    \*   no call of updateWithAndStartPollingFor for them since
                    \*   (kept while the unsubscriptions are what is observed)
  evaluation        \* what is observed besides the controller: a function of the
                    \*   fee-history pipeline evaluated on its own (its name,
                    \*   arguments, position and result), the unsubscriptions of
                    \*   the controller, or nothing (NoEvaluation)

vars == <<state, pollQueue, intervalId, orphanTimers, batches, runs,
          selectedNetwork, ethQuery, lastCongestionResult, quiesced,
          unsubscribed, evaluation>>

IdleRun == [pc |-> "idle"]
NoEvaluation == [fn |-> "none"]
Unsubscriptions == [fn |-> "stopPollingFor"]

\* The history of unsubscriptions after a call, kept where it is observed.
Noted(items) == IF evaluation = Unsubscriptions THEN items ELSE {}

\* The compatibility checks observed: the run whose check answered last, the
\* item it produces and what the host's two functions did in it ("none"
\* before any).
NoAnswer == "none"
CompatibilityChecks ==
  [fn |-> "getEIP1559Compatibility", run |-> 0, item |-> NoAnswer,
   network |-> NoAnswer, account |-> NoAnswer]

\* The observation after the check of run r, kept where it is observed.
Answered(r, network, account) ==
  IF evaluation.fn = "getEIP1559Compatibility"
  THEN [evaluation EXCEPT !.run = r, !.item = runs[r].item,
                          !.network = network, !.account = account]
  ELSE evaluation

\* The controller after construction.
Constructed ==
  /\ state = defaultState
  /\ pollQueue = {}
  /\ intervalId = "undefined"
  /\ orphanTimers = 0
  /\ batches = {}
  /\ runs = [r \in RunIds |-> IdleRun]
  /\ selectedNetwork \in Networks
  /\ ethQuery = selectedNetwork
  /\ lastCongestionResult = {}
  /\ quiesced = "active"
  /\ unsubscribed = {}

Init ==
  /\ Constructed
  /\ evaluation = NoEvaluation

\* ------------------------------------------------------------- producers
InFlight == {"compat", "feeMarket", "legacy", "ethGasPrice", "feeHistory"}
Settled == {"resolved", "rejected"}

FreeSlots == {r \in RunIds : runs[r].pc = "idle"}
LowestOf(S) == CHOOSE r \in S : \A q \in S : r <= q

\* The host's answer to getCurrentNetworkLegacyGasAPICompatibility().
getCurrentNetworkLegacyGasAPICompatibility == selectedNetwork \in LegacyNetworks

\* _fetchGasFeeEstimateData up to its first await: the legacy compatibility
\* and the chain id are read, then the compatibility check is awaited.
BeginFetchGasFeeEstimateData(origin, shouldUpdateState, shape) ==
  LET chainId == withNormalizedChainId(getChainId(shape, selectedNetwork))
  IN [pc |-> IF chainId.throws THEN "rejected" ELSE "compat",
      item |-> "gasFeeEstimates",
      origin |-> origin,
      shouldUpdateState |-> shouldUpdateState,
      isLegacyGasAPICompatible |-> getCurrentNetworkLegacyGasAPICompatibility,
      isEIP1559Compatible |-> FALSE,
      chainId |-> chainId.value,
      forNetwork |-> selectedNetwork,
      request |-> EmptyObject,
      called |-> {},
      result |-> EmptyObject]

\* determineWhetherNetworkCongested up to its first await.
BeginDetermineWhetherNetworkCongested(origin) ==
  [pc |-> "compat",
   item |-> "isNetworkCongested",
   origin |-> origin,
   shouldUpdateState |-> TRUE,
   isLegacyGasAPICompatible |-> FALSE,
   isEIP1559Compatible |-> FALSE,
   chainId |-> NaN,
   forNetwork |-> selectedNetwork,
   request |-> EmptyObject,
   called |-> {},
   result |-> EmptyObject]

\* this.pollableItems[item]()
BeginProducer(item, origin, shape) ==
  IF item = "gasFeeEstimates"
  THEN BeginFetchGasFeeEstimateData(origin, TRUE, shape)
  ELSE BeginDetermineWhetherNetworkCongested(origin)

\* A source chain that would try the legacy API whenever the fee-market API is
\* not usable, whatever the network's legacy compatibility (told apart by C8).
PrimarySourceLegacyDefault(isEIP1559Compatible, isLegacyGasAPICompatible) ==
  IF isEIP1559Compatible THEN "feeMarket" ELSE "legacy"

\* A catch block that would go down the chain one source at a time, to the
\* legacy API first where the network has one (told apart by C7).
FallbackToLegacyFirst(isLegacyGasAPICompatible) ==
  IF isLegacyGasAPICompatible THEN "legacy" ELSE "ethGasPrice"

\* The source _fetchGasFeeEstimateData turns to once compatibility is known;
\* with neither API usable it throws into its own catch block.
PrimarySource(isEIP1559Compatible, isLegacyGasAPICompatible) ==
  IF isEIP1559Compatible THEN "feeMarket"
  ELSE IF isLegacyGasAPICompatible THEN "legacy"
  ELSE "ethGasPrice"

\* The catch block of the primary attempt.
FallbackSource(isLegacyGasAPICompatible) == "ethGasPrice"

Invoke(run, source) ==
  [run EXCEPT !.pc = source, !.called = @ \cup {source},
              !.request = RequestOf(source, run.chainId)]

\* A getTimeEstimate that would not look at the estimate type held in state
\* (told apart by C11).
getTimeEstimateUnconditionally(maxPriorityFeePerGas, maxFeePerGas) ==
  calculateTimeEstimate(maxPriorityFeePerGas, maxFeePerGas, state.gasFeeEstimates)

getTimeEstimate(maxPriorityFeePerGas, maxFeePerGas) ==
  IF state.gasEstimateType # GAS_ESTIMATE_TYPES.FEE_MARKET
  THEN EmptyObject
  ELSE calculateTimeEstimate(maxPriorityFeePerGas, maxFeePerGas, state.gasFeeEstimates)

FeeMarketState(estimates) ==
  [gasFeeEstimates |-> estimates,
   estimatedGasFeeTimeBounds |->
     getTimeEstimate(estimates.medium.suggestedMaxPriorityFeePerGas,
                     estimates.medium.suggestedMaxFeePerGas),
   gasEstimateType |-> GAS_ESTIMATE_TYPES.FEE_MARKET]

\* A legacy branch that would compute time bounds as the fee-market branch
\* does (told apart by C9).
LegacyStateWithTimeBounds(estimates) ==
  [gasFeeEstimates |-> estimates,
   estimatedGasFeeTimeBounds |-> getTimeEstimate(estimates.low, estimates.high),
   gasEstimateType |-> GAS_ESTIMATE_TYPES.LEGACY]

LegacyState(estimates) ==
  [gasFeeEstimates |-> estimates,
   estimatedGasFeeTimeBounds |-> EmptyObject,
   gasEstimateType |-> GAS_ESTIMATE_TYPES.LEGACY]

EthGasPriceState(estimates) ==
  [gasFeeEstimates |-> estimates,
   estimatedGasFeeTimeBounds |-> EmptyObject,
   gasEstimateType |-> GAS_ESTIMATE_TYPES.ETH_GASPRICE]

\* An update that would leave gasEstimateType as it was (told apart by C6).
UpdateEstimatesWithoutType(st, newState) ==
  [st EXCEPT !.gasFeeEstimates = newState.gasFeeEstimates,
             !.estimatedGasFeeTimeBounds = newState.estimatedGasFeeTimeBounds]

\* An update that would replace the whole state, the congestion flag going
\* back to its default (told apart by C34).
UpdateEstimatesResettingCongestion(st, newState) ==
  [st EXCEPT !.gasFeeEstimates = newState.gasFeeEstimates,
             !.estimatedGasFeeTimeBounds = newState.estimatedGasFeeTimeBounds,
             !.gasEstimateType = newState.gasEstimateType,
             !.isNetworkCongested = defaultState.isNetworkCongested]

\* this.update(...) of _fetchGasFeeEstimateData: one atomic replacement.
UpdateEstimates(st, newState) ==
  [st EXCEPT !.gasFeeEstimates = newState.gasFeeEstimates,
             !.estimatedGasFeeTimeBounds = newState.estimatedGasFeeTimeBounds,
             !.gasEstimateType = newState.gasEstimateType]

\* An end of _fetchGasFeeEstimateData that would commit whatever the option
\* says (told apart by C19).
StateAfterFetchWhateverOption(run, newState) == UpdateEstimates(state, newState)

\* The end of _fetchGasFeeEstimateData: commit unless told not to.
StateAfterFetch(run, newState) ==
  IF run.shouldUpdateState THEN UpdateEstimates(state, newState) ELSE state

\* A failure handler that would clear the estimates of a call that updates
\* the state (told apart by C10).
StateClearedOnFailure(run) ==
  IF run.shouldUpdateState
  THEN UpdateEstimates(state, defaultState)
  ELSE state

\* The state a failing source leaves behind.
StateAfterFailure(run) == state

\* The end of determineWhetherNetworkCongested on a compatible network.
StateAfterCongestionCheck(isNetworkCongested) ==
  [state EXCEPT !.isNetworkCongested = isNetworkCongested]

\* ------------------------------------------------------------- the timer
\* this.intervalId and the pending timers it no longer names, as one value.
Timers == [intervalId |-> intervalId, orphanTimers |-> orphanTimers]

\* setTimeout returns a new pending timer; a pending timer that this.intervalId
\* named before the assignment stays pending, and nothing names it any more.
scheduleNextPoll(t) ==
  [intervalId |-> "live",
   orphanTimers |-> t.orphanTimers + (IF t.intervalId = "live" THEN 1 ELSE 0)]

startPolling(t) ==
  IF t.intervalId = "undefined" THEN scheduleNextPoll(t) ELSE t

\* clearInterval cancels a pending timer and does nothing to one that has fired.
pausePolling(t) ==
  IF t.intervalId # "undefined" THEN [t EXCEPT !.intervalId = "undefined"] ELSE t

\* The model holds at most MaxOrphanTimers orphaned timers.
CanSchedule(t) == t.intervalId = "live" => t.orphanTimers < MaxOrphanTimers

SetTimers(t) ==
  /\ intervalId' = t.intervalId
  /\ orphanTimers' = t.orphanTimers

\* ------------------------------------------------- what awaits a producer
\* Whether the timer callback goes on (to scheduleNextPoll) once run r of its
\* batch has settled: Promise.all waits for every promise of the batch.
BatchSettled(batch, r) == batch \ {r} = {}

\* safelyExecute of ../util around a producer of a batch: the promise it
\* returns is fulfilled whether the producer resolves or rejects, so the
\* Promise.all of the batch waits for the others and never rejects.
SafelyExecuted(batch, r, outcome) ==
  [pending |-> batch.pending \ {r},
   swallowed |-> batch.swallowed \cup
                   (IF outcome = "rejected" THEN {runs[r].item} ELSE {})]

\* A timer callback that would schedule the next poll only when the producer
\* that settled last succeeded (told apart by C37).
TimersAfterBatchOnSuccess(t, outcome) ==
  IF outcome = "resolved" THEN scheduleNextPoll(t) ELSE t

\* The timer callback after await this.poll(): whatever the outcome of the
\* producer that settled last, the next poll is scheduled.
TimersAfterBatch(t, outcome) == scheduleNextPoll(t)

\* An updateWithAndStartPollingFor that would add the item whether or not
\* its producer succeeded (told apart by C38).
QueueAfterSubscribeWhateverOutcome(q, item, outcome) == q \cup {item}

\* updateWithAndStartPollingFor after its await; a rejection leaves it there.
QueueAfterSubscribe(q, item, outcome) ==
  IF outcome = "resolved" THEN q \cup {item} ELSE q

TimersAfterSubscribe(t, outcome) ==
  IF outcome = "resolved" THEN startPolling(t) ELSE t

\* The call once its producer has settled: done when the producer resolved;
\* when it rejected the await throws and nothing catches it, and the call
\* rejects with the producer's error.
AfterSubscribe(run, outcome) ==
  IF outcome = "resolved" THEN IdleRun ELSE [run EXCEPT !.pc = "rejected"]

\* A call that has returned, with its outcome and result.
Returned(run, outcome, result) == [run EXCEPT !.pc = outcome, !.result = result]

\* What the latest completed congestion check returned, once the given run
\* has settled.
CongestionResultAfter(run, outcome, result) ==
  IF run.item = "isNetworkCongested" /\ outcome = "resolved"
  THEN {result.isNetworkCongested}
  ELSE lastCongestionResult

\* Run r settles with the given outcome, and the code awaiting it goes on in
\* the same turn of the event loop:
\*  - fetchGasFeeEstimates hands the result or the error to its caller, who
\*    picks it up in DirectCallReturns;
\*  - updateWithAndStartPollingFor adds the item and starts polling, or
\*    hands the producer's error to its caller (SubscribeCallReturns);
\*  - safelyExecute swallows the outcome, and when the run was the last of
\*    its batch the timer callback schedules the next poll.
Settle(r, outcome, result) ==
  LET run == runs[r]
  IN /\ lastCongestionResult' = CongestionResultAfter(run, outcome, result)
     /\ CASE run.origin = "direct" ->
            /\ runs' = [runs EXCEPT ![r] = Returned(run, outcome, result)]
            /\ UNCHANGED <<pollQueue, intervalId, orphanTimers, batches>>
       [] run.origin = "subscribe" ->
            /\ runs' = [runs EXCEPT ![r] = AfterSubscribe(run, outcome)]
            /\ pollQueue' = QueueAfterSubscribe(pollQueue, run.item, outcome)
            /\ outcome = "resolved" => CanSchedule(Timers)
            /\ SetTimers(TimersAfterSubscribe(Timers, outcome))
            /\ UNCHANGED batches
       [] run.origin = "tick" ->
            /\ runs' = [runs EXCEPT ![r] = IdleRun]
            /\ \E batch \in batches :
                 /\ r \in batch.pending
                 /\ IF BatchSettled(batch.pending, r)
                    THEN /\ batches' = batches \ {batch}
                         /\ CanSchedule(Timers)
                         /\ SetTimers(TimersAfterBatch(Timers, outcome))
                    ELSE /\ batches' = (batches \ {batch})
                                         \cup {SafelyExecuted(batch, r, outcome)}
                         /\ UNCHANGED <<intervalId, orphanTimers>>
            /\ UNCHANGED pollQueue

\* --------------------------------------------------- steps of a producer
\* A congestion check that would ask for the fee history whatever the
\* compatibility (told apart by C32).
AlwaysFetchFeeHistory(isEIP1559Compatible) == TRUE

\* if (isEIP1559Compatible) of determineWhetherNetworkCongested.
ShouldFetchFeeHistory(isEIP1559Compatible) == isEIP1559Compatible

\* The awaited compatibility check answers, after the host's two functions
\* answered or threw.
CompatibilityAnswers(r) ==
  /\ runs[r].pc = "compat"
  /\ \E network \in NetworkAnswers, account \in AccountAnswers :
       LET isEIP1559Compatible == getEIP1559Compatibility(network, account)
           run == [runs[r] EXCEPT !.isEIP1559Compatible = isEIP1559Compatible]
       IN /\ evaluation' = Answered(r, network, account)
          /\ IF run.item = "gasFeeEstimates"
             THEN /\ runs' = [runs EXCEPT ![r] =
                         Invoke(run, PrimarySource(isEIP1559Compatible,
                                                   run.isLegacyGasAPICompatible))]
                  /\ UNCHANGED <<pollQueue, intervalId, orphanTimers, batches,
                                 lastCongestionResult>>
             ELSE IF ShouldFetchFeeHistory(isEIP1559Compatible)
                  THEN /\ runs' = [runs EXCEPT ![r] = Invoke(run, "feeHistory")]
                       /\ UNCHANGED <<pollQueue, intervalId, orphanTimers,
                                      batches, lastCongestionResult>>
                  ELSE Settle(r, "resolved", [isNetworkCongested |-> FALSE])
  /\ UNCHANGED <<unsubscribed, state, selectedNetwork, ethQuery, quiesced>>

\* fetchGasEstimates settles.
FetchGasEstimatesSettles(r) ==
  /\ runs[r].pc = "feeMarket"
  /\ \/ \E v \in Vals :
          LET newState == FeeMarketState(GasFeeEstimatesOf(v))
          IN /\ state' = StateAfterFetch(runs[r], newState)
             /\ Settle(r, "resolved", newState)
     \/ /\ runs' = [runs EXCEPT ![r] =
               Invoke(@, FallbackSource(runs[r].isLegacyGasAPICompatible))]
        /\ state' = StateAfterFailure(runs[r])
        /\ UNCHANGED <<pollQueue, intervalId, orphanTimers, batches,
                       lastCongestionResult>>
  /\ UNCHANGED <<evaluation, unsubscribed, selectedNetwork, ethQuery, quiesced>>

\* fetchLegacyGasPriceEstimates settles.
FetchLegacyGasPriceEstimatesSettles(r) ==
  /\ runs[r].pc = "legacy"
  /\ \/ \E v \in Vals :
          LET newState == LegacyState(LegacyGasPriceEstimateOf(v))
          IN /\ state' = StateAfterFetch(runs[r], newState)
             /\ Settle(r, "resolved", newState)
     \/ /\ runs' = [runs EXCEPT ![r] =
               Invoke(@, FallbackSource(runs[r].isLegacyGasAPICompatible))]
        /\ state' = StateAfterFailure(runs[r])
        /\ UNCHANGED <<pollQueue, intervalId, orphanTimers, batches,
                       lastCongestionResult>>
  /\ UNCHANGED <<evaluation, unsubscribed, selectedNetwork, ethQuery, quiesced>>

\* fetchEthGasPriceEstimate settles.
FetchEthGasPriceEstimateSettles(r) ==
  /\ runs[r].pc = "ethGasPrice"
  /\ \/ \E v \in Vals :
          LET newState == EthGasPriceState(EthGasPriceEstimateOf(v))
          IN /\ state' = StateAfterFetch(runs[r], newState)
             /\ Settle(r, "resolved", newState)
     \/ /\ state' = StateAfterFailure(runs[r])
        /\ Settle(r, "rejected", EmptyObject)
  /\ UNCHANGED <<evaluation, unsubscribed, selectedNetwork, ethQuery, quiesced>>

\* fetchFeeHistory settles in determineWhetherNetworkCongested.
FetchFeeHistorySettles(r) ==
  /\ runs[r].pc = "feeHistory"
  /\ \/ \E isNetworkCongested \in CongestionOutcomes :
             /\ state' = StateAfterCongestionCheck(isNetworkCongested)
             /\ Settle(r, "resolved", [isNetworkCongested |-> isNetworkCongested])
     \/ /\ state' = state
        /\ Settle(r, "rejected", EmptyObject)
  /\ UNCHANGED <<evaluation, unsubscribed, selectedNetwork, ethQuery, quiesced>>

\* ------------------------------------------------------- public methods
\* The history variable after a public method other than those that set it.
AfterPublicCall(q) == IF q = "destroyed" THEN "stopped" ELSE q

DirectCalls == {r \in RunIds : runs[r].pc # "idle" /\ runs[r].origin = "direct"}

\* fetchGasFeeEstimates(options), up to its first await.
fetchGasFeeEstimates(shouldUpdateState) ==
  /\ FreeSlots # {}
  /\ Cardinality(DirectCalls) < MaxDirectCalls
  /\ \E shape \in ChainIdShapes :
       runs' = [runs EXCEPT ![LowestOf(FreeSlots)] =
         BeginFetchGasFeeEstimateData("direct", shouldUpdateState, shape)]
  /\ quiesced' = AfterPublicCall(quiesced)
  /\ UNCHANGED <<evaluation, unsubscribed, lastCongestionResult, state,
                 pollQueue, intervalId, orphanTimers, batches,
                 selectedNetwork, ethQuery>>

\* The caller of fetchGasFeeEstimates takes the result or the error.
DirectCallReturns(r) ==
  /\ runs[r].pc \in Settled
  /\ runs[r].origin = "direct"
  /\ runs' = [runs EXCEPT ![r] = IdleRun]
  /\ UNCHANGED <<evaluation, unsubscribed, lastCongestionResult, state,
                 pollQueue, intervalId, orphanTimers, batches,
                 selectedNetwork, ethQuery, quiesced>>

\* An updateWithAndStartPollingFor that would fetch whether or not the item
\* is polled already (told apart by C15).
AlwaysFetchFirst(item) == TRUE

\* Whether updateWithAndStartPollingFor(item) runs the item's producer.
ShouldFetchFirst(item) == item \notin pollQueue

\* updateWithAndStartPollingFor(item), up to the await of the producer.  A
\* producer that throws before its first await rejects the call on the spot.
updateWithAndStartPollingFor(item) ==
  /\ IF ShouldFetchFirst(item)
     THEN /\ FreeSlots # {}
          /\ \E shape \in ChainIdShapes :
               LET run == BeginProducer(item, "subscribe", shape)
               IN runs' = [runs EXCEPT ![LowestOf(FreeSlots)] = run]
     ELSE runs' = runs
  /\ quiesced' = "active"
  /\ unsubscribed' = Noted(unsubscribed \ {item})
  /\ UNCHANGED <<evaluation, lastCongestionResult, state, pollQueue, intervalId,
                 orphanTimers, batches, selectedNetwork, ethQuery>>

\* The caller of updateWithAndStartPollingFor takes the error of a call that
\* rejected.
SubscribeCallReturns(r) ==
  /\ runs[r].pc = "rejected"
  /\ runs[r].origin = "subscribe"
  /\ runs' = [runs EXCEPT ![r] = IdleRun]
  /\ UNCHANGED <<evaluation, unsubscribed, lastCongestionResult, state,
                 pollQueue, intervalId, orphanTimers, batches,
                 selectedNetwork, ethQuery, quiesced>>

\* A stopPollingFor that would clear the queue as stopPolling does (told apart
\* by C18).
stopPollingForEveryItem(item) ==
  /\ pollQueue' = {}
  /\ quiesced' = AfterPublicCall(quiesced)
  /\ unsubscribed' = Noted(unsubscribed \cup {item})
  /\ UNCHANGED <<evaluation, lastCongestionResult, state, intervalId,
                 orphanTimers, batches, runs, selectedNetwork, ethQuery>>

stopPollingFor(item) ==
  /\ pollQueue' = pollQueue \ {item}
  /\ quiesced' = AfterPublicCall(quiesced)
  /\ unsubscribed' = Noted(unsubscribed \cup {item})
  /\ UNCHANGED <<evaluation, lastCongestionResult, state, intervalId,
                 orphanTimers, batches, runs, selectedNetwork, ethQuery>>

\* The body of stopPolling, on the timer and on the queue.
StopPollingTimers(t) == pausePolling(t)
StopPollingQueue(q) == {}

\* A stopPolling that would call resetState(), as it once did (told apart by
\* C35).
StopPollingResetsState(st) == defaultState

\* The body of stopPolling, on the state: nothing is written.
StopPollingState(st) == st

stopPolling ==
  /\ SetTimers(StopPollingTimers(Timers))
  /\ pollQueue' = StopPollingQueue(pollQueue)
  /\ quiesced' = "stopped"
  /\ state' = StopPollingState(state)
  /\ UNCHANGED <<evaluation, unsubscribed, lastCongestionResult, batches,
                 runs, selectedNetwork, ethQuery>>

destroy ==
  /\ SetTimers(StopPollingTimers(Timers))
  /\ pollQueue' = StopPollingQueue(pollQueue)
  /\ quiesced' = "destroyed"
  /\ state' = StopPollingState(state)
  /\ UNCHANGED <<evaluation, unsubscribed, lastCongestionResult, batches,
                 runs, selectedNetwork, ethQuery>>

\* The host selects another network and the onNetworkStateChange listener runs.
NetworkStateChange(n) ==
  /\ n # selectedNetwork
  /\ selectedNetwork' = n
  /\ ethQuery' = n
  /\ UNCHANGED <<evaluation, unsubscribed, lastCongestionResult, state,
                 pollQueue, intervalId, orphanTimers, batches, runs,
                 quiesced>>

\* ---------------------------------------------------------------- ticks
\* A pending timer fires: the one this.intervalId names, or an orphan.
Fire(t, which) ==
  IF which = "named" THEN [t EXCEPT !.intervalId = "expired"]
  ELSE [t EXCEPT !.orphanTimers = @ - 1]

CanFire(which) ==
  IF which = "named" THEN intervalId = "live" ELSE orphanTimers > 0

\* A poll() that would stop after the first item of the queue (told apart by
\* C16).
FirstItemToPoll ==
  IF "gasFeeEstimates" \in pollQueue THEN {"gasFeeEstimates"} ELSE pollQueue

\* The items poll() starts a producer for.
ItemsToPoll == pollQueue

\* The slots poll() puts its producers in, in queue order.
RECURSIVE AssignSlots(_, _)
AssignSlots(items, free) ==
  IF items = {} THEN [i \in {} |-> 0]
  ELSE LET item == IF "gasFeeEstimates" \in items THEN "gasFeeEstimates"
                   ELSE "isNetworkCongested"
           rest == AssignSlots(items \ {item}, free \ {LowestOf(free)})
       IN [i \in {item} \cup DOMAIN rest |->
             IF i = item THEN LowestOf(free) ELSE rest[i]]

\* The timer callback up to its await: poll() starts every queued producer
\* under safelyExecute.  When none is left pending (the queue is empty, or
\* every producer threw before its first await) Promise.all is fulfilled in
\* the same turn and the callback goes on to scheduleNextPoll.
TimerFires(which) ==
  /\ CanFire(which)
  /\ Cardinality(FreeSlots) >= Cardinality(ItemsToPoll)
  /\ \E shape \in ChainIdShapes :
       LET fired == Fire(Timers, which)
           started == [i \in ItemsToPoll |-> BeginProducer(i, "tick", shape)]
           pending == {i \in ItemsToPoll : started[i].pc # "rejected"}
           slot == AssignSlots(pending, FreeSlots)
       IN /\ runs' = [r \in RunIds |->
                        IF \E i \in pending : slot[i] = r
                        THEN started[CHOOSE i \in pending : slot[i] = r]
                        ELSE runs[r]]
          /\ IF pending = {}
             THEN /\ SetTimers(scheduleNextPoll(fired))
                  /\ UNCHANGED batches
             ELSE /\ SetTimers(fired)
                  /\ batches' = batches \cup
                       {[pending |-> {slot[i] : i \in pending},
                         swallowed |-> ItemsToPoll \ pending]}
  /\ UNCHANGED <<evaluation, unsubscribed, lastCongestionResult, state,
                 pollQueue, selectedNetwork, ethQuery, quiesced>>

\* ----------------------------------------------------------------- spec
\* The steps of the producers in flight.
Producing ==
  \/ \E r \in RunIds : CompatibilityAnswers(r)
  \/ \E r \in RunIds : FetchGasEstimatesSettles(r)
  \/ \E r \in RunIds : FetchLegacyGasPriceEstimatesSettles(r)
  \/ \E r \in RunIds : FetchEthGasPriceEstimateSettles(r)

\* The polling interface of the controller.
Subscribing ==
  \/ \E item \in Items : updateWithAndStartPollingFor(item)
  \/ \E r \in RunIds : SubscribeCallReturns(r)
  \/ \E item \in Items : stopPollingFor(item)
  \/ stopPolling
  \/ destroy

\* The one-off interface, and the host switching networks under it.
Fetching ==
  \/ \E shouldUpdateState \in BOOLEAN : fetchGasFeeEstimates(shouldUpdateState)
  \/ \E r \in RunIds : DirectCallReturns(r)
  \/ \E n \in Networks : NetworkStateChange(n)

Ticking == \E which \in {"named", "orphan"} : TimerFires(which)

CheckingCongestion == \E r \in RunIds : FetchFeeHistorySettles(r)

\* The whole controller.
Next == Subscribing \/ Fetching \/ Ticking \/ Producing \/ CheckingCongestion

Spec == Init /\ [][Next]_vars

\* The controller used for polling only, on a network that stays selected.
NextScheduler == Subscribing \/ Ticking \/ Producing \/ CheckingCongestion

SpecScheduler == Init /\ [][NextScheduler]_vars

\* The controller before its first timer fires.
NextNoTick == Subscribing \/ Producing \/ CheckingCongestion

SpecNoTick == Init /\ [][NextNoTick]_vars

\* The polling controller whose items are subscribed and unsubscribed one at a
\* time, with its unsubscriptions observed.
InitUnsubscribe ==
  /\ Constructed
  /\ evaluation = Unsubscriptions

NextUnsubscribe ==
  \/ \E item \in Items : updateWithAndStartPollingFor(item)
  \/ \E r \in RunIds : SubscribeCallReturns(r)
  \/ \E item \in Items : stopPollingFor(item)
  \/ Ticking
  \/ Producing
  \/ CheckingCongestion

SpecUnsubscribe == InitUnsubscribe /\ [][NextUnsubscribe]_vars

\* The producers run by subscriptions, with their compatibility checks
\* observed.
InitCompatibility ==
  /\ Constructed
  /\ evaluation = CompatibilityChecks

NextCompatibility ==
  \/ \E item \in Items : updateWithAndStartPollingFor(item)
  \/ \E r \in RunIds : SubscribeCallReturns(r)
  \/ Producing
  \/ CheckingCongestion

SpecCompatibility == InitCompatibility /\ [][NextCompatibility]_vars

\* The controller used for one-off estimates only, across network switches.
NextFetch == Fetching \/ Producing

SpecFetch == Init /\ [][NextFetch]_vars

\* ------------------------------------- the congestion check on its own
\* determineWhetherNetworkCongested on an EIP-1559 network, from the point
\* where this.fetchFeeHistory has answered with a fee history.
InitCongestionCheck ==
  /\ Constructed
  /\ \E blocks \in FeeHistories :
       evaluation = [fn |-> "determineWhetherNetworkCongested",
                     pc |-> "feeHistory",
                     blocks |-> blocks,
                     isNetworkCongested |-> FALSE]

\* Lines 784-803: derive the flag, write it to the state, return it.
CongestionCheckCompletes ==
  /\ evaluation.fn = "determineWhetherNetworkCongested"
  /\ evaluation.pc = "feeHistory"
  /\ LET isNetworkCongested == CongestionOf(evaluation.blocks)
     IN /\ state' = StateAfterCongestionCheck(isNetworkCongested)
        /\ evaluation' = [evaluation EXCEPT
                            !.pc = "returned",
                            !.isNetworkCongested = isNetworkCongested]
  /\ UNCHANGED <<pollQueue, intervalId, orphanTimers, batches, runs,
                 selectedNetwork, ethQuery, lastCongestionResult, quiesced,
                 unsubscribed>>

NextCongestionCheck == CongestionCheckCompletes

SpecCongestionCheck == InitCongestionCheck /\ [][NextCongestionCheck]_vars

\* ------------------------------------------------------- fetchFeeHistory
\* Percentiles a caller asks for, and how many it can list.
MaxPercentiles == 2
PercentileValues == {10, 20}
GivenPercentiles == UNION {[1..n -> PercentileValues] : n \in 0..MaxPercentiles}

\* Hex strings the node answers with: 100, and 2^53 + 1.
HexFees ==
  {<<"0", "x", "6", "4">>,
   <<"0", "x", "2", "0", "0", "0", "0", "0", "0", "0", "0", "0", "0", "0",
     "0", "1">>}
\* Gas-used ratios (passed through, never computed with) and block ids.
GasUsedRatios == {"0.25", "1"}
BlockIds == {"0x0", "0xcb1939"}

\* What indexing past the end of an array gives, for an array of hex strings
\* and for an array of numbers.
undefined == <<"undefined">>
undefinedNumber == "undefined"

\* The responses to eth_feeHistory: each array of any length the bounds allow,
\* whatever was asked for.
RewardRows == UNION {[1..n -> HexFees] : n \in 0..MaxPercentiles}
EthFeeHistoryResponses ==
  [oldestBlock : BlockIds,
   baseFeePerGas : UNION {[1..n -> HexFees] : n \in 0..(MaxBlocks + 1)},
   gasUsedRatio : UNION {[1..n -> GasUsedRatios] : n \in 0..MaxBlocks},
   reward : UNION {[1..n -> RewardRows] : n \in 0..MaxBlocks}]

\* A number is the binary numeral of an integer: most significant bit first,
\* no leading zero, <<>> for 0.
HexDigitBits(c) ==
  LET v == DigitValue(c)
  IN <<v \div 8, (v \div 4) % 2, (v \div 2) % 2, v % 2>>

RECURSIVE BitsOf(_)
BitsOf(chars) ==
  IF chars = <<>> THEN <<>> ELSE HexDigitBits(Head(chars)) \o BitsOf(Tail(chars))

RECURSIVE StripLeadingZeros(_)
StripLeadingZeros(bits) ==
  IF bits # <<>> /\ Head(bits) = 0 THEN StripLeadingZeros(Tail(bits)) ELSE bits

\* stripHexPrefix of ethjs-util: what is no string is returned as it is.
stripHexPrefix(str) ==
  IF str = undefined THEN str
  ELSE IF Len(str) >= 2 /\ str[1] = "0" /\ str[2] = "x"
       THEN SubSeq(str, 3, Len(str))
       ELSE str

\* new BN(number, 16) of bn.js: the exact integer; zero when number is undefined
\* (the constructor reads number || 0).
BN(number) ==
  IF number = undefined THEN <<>> ELSE StripLeadingZeros(BitsOf(number))

\* The significand of a binary64 number, in bits.
SignificandBits == 53

RECURSIVE Increment(_)
Increment(bits) ==
  IF bits = <<>> THEN <<1>>
  ELSE LET front == SubSeq(bits, 1, Len(bits) - 1)
       IN IF bits[Len(bits)] = 0 THEN front \o <<1>>
          ELSE Increment(front) \o <<0>>

\* parseInt(bn.toString(10), 10): the binary64 number nearest to the integer,
\* a tie going to the even significand.
NearestNumber(bits) ==
  IF Len(bits) <= SignificandBits THEN bits
  ELSE LET kept == SubSeq(bits, 1, SignificandBits)
           rest == SubSeq(bits, SignificandBits + 1, Len(bits))
           sticky == \E i \in 2..Len(rest) : rest[i] = 1
           roundUp == rest[1] = 1 /\ (sticky \/ kept[SignificandBits] = 1)
       IN (IF roundUp THEN Increment(kept) ELSE kept)
            \o [i \in 1..Len(rest) |-> 0]

hexToDec(hex) == NearestNumber(BN(stripHexPrefix(hex)))

decToHex(dec) == <<"0", "x">> \o NumberToString(dec, 16)

\* Array.from(new Set(array)): the first occurrence of each element, in order.
RECURSIVE Distinct(_)
Distinct(array) ==
  IF array = <<>> THEN <<>>
  ELSE LET front == SubSeq(array, 1, Len(array) - 1)
           last == array[Len(array)]
       IN IF \E i \in 1..Len(front) : front[i] = last
          THEN Distinct(front)
          ELSE Distinct(front) \o <<last>>

\* Array.prototype.slice(0, end)
slice(array, end) ==
  SubSeq(array, 1, IF end < Len(array) THEN end ELSE Len(array))

RangeOf(array) == {array[i] : i \in 1..Len(array)}
IndexOf(array, x) == CHOOSE i \in 1..Len(array) : array[i] = x

\* The percentiles each export sends to the node: the default export of
\* fetchFeeHistory.ts sorts the distinct ones, the named export sends them as
\* given.
RequestedPercentiles(fn, givenPercentiles) ==
  IF fn = "fetchFeeHistory"
  THEN SortAscending(Distinct(givenPercentiles))
  ELSE givenPercentiles

\* The params of the eth_feeHistory request (endBlock keeps its default).
RequestParams(fn, numberOfBlocks, givenPercentiles) ==
  [numberOfBlocks |-> decToHex(numberOfBlocks),
   endBlock |-> "latest",
   percentiles |-> RequestedPercentiles(fn, givenPercentiles)]

\* A test of the base fees alone.
AnyArrayNonEmpty(response) == Len(response.baseFeePerGas) > 0

\* The three arrays are all non-empty.
HasBlocks(response) ==
  /\ Len(response.baseFeePerGas) > 0
  /\ Len(response.gasUsedRatio) > 0
  /\ Len(response.reward) > 0

\* The base fees with the one of the next block left in.
AllBaseFees(response, numberOfBlocks) == response.baseFeePerGas

\* The base fees kept for the blocks.
BaseFeesOfBlocks(response, numberOfBlocks) ==
  slice(response.baseFeePerGas, numberOfBlocks)

Threw == [outcome |-> "threw"]
ReturnedHistory(startBlockId, blocks) ==
  [outcome |-> "returned", startBlockId |-> startBlockId, blocks |-> blocks]

\* The blocks of the default export (lines 141-164).  Reading an entry of a
\* reward row that the response has no row for is a TypeError.
BlocksByRecord(response, numberOfBlocks, percentiles) ==
  LET baseFeesPerGasAsHex == BaseFeesOfBlocks(response, numberOfBlocks)
      gasUsedRatios == response.gasUsedRatio
      priorityFeePercentileGroups == response.reward
      throws ==
        /\ percentiles # <<>>
        /\ Len(baseFeesPerGasAsHex) > Len(priorityFeePercentileGroups)
      priorityFee(blockIndex, percentileIndex) ==
        LET priorityFeesPerPercentile == priorityFeePercentileGroups[blockIndex]
        IN IF percentileIndex <= Len(priorityFeesPerPercentile)
           THEN priorityFeesPerPercentile[percentileIndex]
           ELSE undefined
  IN IF throws THEN Threw
     ELSE ReturnedHistory(response.oldestBlock,
            [blockIndex \in 1..Len(baseFeesPerGasAsHex) |->
              [baseFeePerGas |-> hexToDec(baseFeesPerGasAsHex[blockIndex]),
               gasUsedRatio |->
                 IF blockIndex <= Len(gasUsedRatios)
                 THEN gasUsedRatios[blockIndex] ELSE undefinedNumber,
               priorityFeesByPercentile |->
                 [percentile \in RangeOf(percentiles) |->
                    hexToDec(priorityFee(blockIndex,
                                         IndexOf(percentiles, percentile)))]]])

\* zipEqualSizedTuples of ../util: column i of the result holds entry i of
\* every tuple; a tuple of another size than announced is an error.
zipEqualSizedTuplesThrows(tuples, numberOfColumnsPerTuple) ==
  \E k \in 1..Len(tuples) : Len(tuples[k]) # numberOfColumnsPerTuple

zipEqualSizedTuples(tuples, numberOfColumnsPerTuple) ==
  [i \in 1..numberOfColumnsPerTuple |-> [k \in 1..Len(tuples) |-> tuples[k][i]]]

\* reduce((map, [percentile, fee]) => map.set(percentile, hexToDec(fee))): the
\* last entry of a percentile is the one the map keeps.
LastIndexOf(array, x) ==
  CHOOSE i \in 1..Len(array) :
    array[i] = x /\ \A j \in (i + 1)..Len(array) : array[j] # x

\* The blocks of the named export (part_001, lines 179-208).
BlocksByMap(response, numberOfBlocks, percentiles) ==
  LET tuples == <<BaseFeesOfBlocks(response, numberOfBlocks),
                  response.gasUsedRatio,
                  response.reward>>
      throws ==
        \/ zipEqualSizedTuplesThrows(tuples, numberOfBlocks)
        \/ \E i \in 1..numberOfBlocks :
             zipEqualSizedTuplesThrows(<<percentiles, response.reward[i]>>,
                                       Len(percentiles))
  IN IF throws THEN Threw
     ELSE ReturnedHistory(response.oldestBlock,
            [i \in 1..numberOfBlocks |->
              LET column == zipEqualSizedTuples(tuples, numberOfBlocks)[i]
              IN [baseFeePerGas |-> hexToDec(column[1]),
                  gasUsedRatio |-> column[2],
                  priorityFeesByPercentile |->
                    [percentile \in RangeOf(percentiles) |->
                       hexToDec(column[3][LastIndexOf(percentiles, percentile)])]]])

\* What either export returns for a response.
FeeHistoryOf(fn, response, numberOfBlocks, percentiles) ==
  IF HasBlocks(response)
  THEN IF fn = "fetchFeeHistory"
       THEN BlocksByRecord(response, numberOfBlocks, percentiles)
       ELSE BlocksByMap(response, numberOfBlocks, percentiles)
  ELSE ReturnedHistory(response.oldestBlock, <<>>)

\* A call of fetchFeeHistory: of the default export of fetchFeeHistory.ts
\* ("fetchFeeHistory") or of the named export ("fetchFeeHistoryMap").
FeeHistoryExports == {"fetchFeeHistory", "fetchFeeHistoryMap"}

InitFeeHistory ==
  /\ Constructed
  /\ \E fn \in FeeHistoryExports, numberOfBlocks \in 0..MaxBlocks,
        givenPercentiles \in GivenPercentiles :
       evaluation = [fn |-> fn,
                     pc |-> "called",
                     numberOfBlocks |-> numberOfBlocks,
                     givenPercentiles |-> givenPercentiles]

ControllerUntouched ==
  UNCHANGED <<state, pollQueue, intervalId, orphanTimers, batches, runs,
              selectedNetwork, ethQuery, lastCongestionResult, quiesced,
              unsubscribed>>

\* Up to the await of query(ethQuery, 'eth_feeHistory', ...).
FeeHistoryRequested ==
  /\ evaluation.fn \in FeeHistoryExports
  /\ evaluation.pc = "called"
  /\ evaluation' =
       [fn |-> evaluation.fn,
        pc |-> "eth_feeHistory",
        numberOfBlocks |-> evaluation.numberOfBlocks,
        givenPercentiles |-> evaluation.givenPercentiles,
        request |-> RequestParams(evaluation.fn, evaluation.numberOfBlocks,
                                  evaluation.givenPercentiles)]
  /\ ControllerUntouched

\* The node answers, and the function runs to its end.
FeeHistoryAnswered ==
  /\ evaluation.fn \in FeeHistoryExports
  /\ evaluation.pc = "eth_feeHistory"
  /\ \E response \in EthFeeHistoryResponses :
       evaluation' =
         [fn |-> evaluation.fn,
          pc |-> "settled",
          numberOfBlocks |-> evaluation.numberOfBlocks,
          givenPercentiles |-> evaluation.givenPercentiles,
          request |-> evaluation.request,
          response |-> response,
          result |-> FeeHistoryOf(evaluation.fn, response,
                                  evaluation.numberOfBlocks,
                                  evaluation.request.percentiles)]
  /\ ControllerUntouched

\* The request fails: the error is the caller's.
FeeHistoryQueryFails ==
  /\ evaluation.fn \in FeeHistoryExports
  /\ evaluation.pc = "eth_feeHistory"
  /\ evaluation' =
       [fn |-> evaluation.fn,
        pc |-> "failed",
        numberOfBlocks |-> evaluation.numberOfBlocks,
        givenPercentiles |-> evaluation.givenPercentiles,
        request |-> evaluation.request]
  /\ ControllerUntouched

NextFeeHistory ==
  \/ FeeHistoryRequested
  \/ FeeHistoryAnswered
  \/ FeeHistoryQueryFails

SpecFeeHistory == InitFeeHistory /\ [][NextFeeHistory]_vars

\* ---------------------------------------- fetchGasEstimatesViaEthFeeHistory
\* A number that need not be whole is the fraction num/den in lowest terms;
\* the products and sums below are exact, where binary64 would round them in
\* the last place.
RECURSIVE GCD(_, _)
GCD(a, b) == IF b = 0 THEN a ELSE GCD(b, a % b)

Rat(n, d) == LET g == GCD(n, d) IN [num |-> n \div g, den |-> d \div g]
\* 0 / 0
NotANumber == [num |-> 0, den |-> 0]

Times(a, b) == Rat(a.num * b.num, a.den * b.den)
Plus(a, b) == Rat(a.num * b.den + b.num * a.den, a.den * b.den)
Minus(a, b) == Rat(a.num * b.den - b.num * a.den, a.den * b.den)
LessThan(a, b) == a.num * b.den < b.num * a.den
MathMax(a, b) == IF LessThan(a, b) THEN b ELSE a

\* Amounts of wei are counted in units of 10^7 wei, so that their products stay
\* within the integers of the model checker: a gwei (1_000_000_000 wei) is 100.
GWEI == 100

PRIORITY_LEVELS == <<"low", "medium", "high">>
PERCENTILES == <<10, 20, 30>>

\* Settings whose priority fee reduction would grow with the level, 2% for
\* low and 6% for high (told apart by C39).
SETTINGS_WITH_REDUCTIONS_SWAPPED ==
  [low |->
     [percentile |-> 10,
      priorityFeeReduction |-> Rat(2, 100),
      minSuggestedMaxPriorityFeePerGas |-> GWEI,
      baseFeeMultiplier |-> Rat(12, 10),
      estimatedWaitTimes |->
        [minWaitTimeEstimate |-> 15000, maxWaitTimeEstimate |-> 30000]],
   medium |->
     [percentile |-> 20,
      priorityFeeReduction |-> Rat(3, 100),
      minSuggestedMaxPriorityFeePerGas |-> (3 * GWEI) \div 2,
      baseFeeMultiplier |-> Rat(13, 10),
      estimatedWaitTimes |->
        [minWaitTimeEstimate |-> 15000, maxWaitTimeEstimate |-> 45000]],
   high |->
     [percentile |-> 30,
      priorityFeeReduction |-> Rat(6, 100),
      minSuggestedMaxPriorityFeePerGas |-> 2 * GWEI,
      baseFeeMultiplier |-> Rat(14, 10),
      estimatedWaitTimes |->
        [minWaitTimeEstimate |-> 15000, maxWaitTimeEstimate |-> 60000]]]

SETTINGS_BY_PRIORITY_LEVEL ==
  [low |->
     [percentile |-> 10,
      priorityFeeReduction |-> Rat(6, 100),
      minSuggestedMaxPriorityFeePerGas |-> GWEI,
      baseFeeMultiplier |-> Rat(12, 10),
      estimatedWaitTimes |->
        [minWaitTimeEstimate |-> 15000, maxWaitTimeEstimate |-> 30000]],
   medium |->
     [percentile |-> 20,
      priorityFeeReduction |-> Rat(3, 100),
      minSuggestedMaxPriorityFeePerGas |-> (3 * GWEI) \div 2,
      baseFeeMultiplier |-> Rat(13, 10),
      estimatedWaitTimes |->
        [minWaitTimeEstimate |-> 15000, maxWaitTimeEstimate |-> 45000]],
   high |->
     [percentile |-> 30,
      priorityFeeReduction |-> Rat(2, 100),
      minSuggestedMaxPriorityFeePerGas |-> 2 * GWEI,
      baseFeeMultiplier |-> Rat(14, 10),
      estimatedWaitTimes |->
        [minWaitTimeEstimate |-> 15000, maxWaitTimeEstimate |-> 60000]]]

\* A medianOf that would take the middle of the list as it is given.
medianOfUnsorted(numbers) ==
  LET len == Len(numbers)
  IN IF len = 0 THEN NotANumber
     ELSE IF len % 2 = 0
          THEN Rat(numbers[len \div 2 + 1] + numbers[len \div 2], 2)
          ELSE Rat(numbers[(len - 1) \div 2 + 1], 1)

\* medianOf (indices count from 1 here); of no numbers it is NaN.
medianOf(numbers) ==
  LET sortedNumbers == SortAscending(numbers)
      len == Len(sortedNumbers)
  IN IF len = 0 THEN NotANumber
     ELSE IF len % 2 = 0
          THEN Rat(sortedNumbers[len \div 2 + 1] + sortedNumbers[len \div 2], 2)
          ELSE Rat(sortedNumbers[(len - 1) \div 2 + 1], 1)

\* What medianOf leaves in the array it was handed: it sorts a copy.
ArrayAfterMedianOf(numbers) == numbers

weiToGwei(wei) == Times(wei, Rat(1, GWEI))

\* Number.prototype.toString of a non-negative number: its decimal digits, of
\* which binary64 has at most 17.
MaxDigits == 17

RECURSIVE FractionDigits(_, _, _)
FractionDigits(remainder, den, left) ==
  IF remainder = 0 \/ left = 0 THEN <<>>
  ELSE <<HexDigits[(10 * remainder) \div den + 1]>>
         \o FractionDigits((10 * remainder) % den, den, left - 1)

toString(number) ==
  IF number = NotANumber THEN <<"N", "a", "N">>
  ELSE NumberToString(number.num \div number.den, 10)
         \o (IF number.num % number.den = 0 THEN <<>>
             ELSE <<".">> \o FractionDigits(number.num % number.den,
                                            number.den, MaxDigits))

\* The block the base fee is taken from.
oldestBlock(blocks) == blocks[1]

latestBlock(blocks) == blocks[Len(blocks)]

calculateGasEstimatesForPriorityLevel(priorityLevel, latestBaseFeePerGas, blocks) ==
  LET settings == SETTINGS_BY_PRIORITY_LEVEL[priorityLevel]
      adjustedBaseFee ==
        Times(Rat(latestBaseFeePerGas, 1), settings.baseFeeMultiplier)
      priorityFees ==
        [i \in 1..Len(blocks) |->
           blocks[i].priorityFeesByPercentile[settings.percentile]]
      medianPriorityFee == medianOf(priorityFees)
      adjustedPriorityFee ==
        Times(medianPriorityFee, Minus(Rat(1, 1), settings.priorityFeeReduction))
      suggestedMaxPriorityFeePerGas ==
        MathMax(adjustedPriorityFee,
                Rat(settings.minSuggestedMaxPriorityFeePerGas, 1))
      suggestedMaxFeePerGas == Plus(adjustedBaseFee, suggestedMaxPriorityFeePerGas)
  IN [minWaitTimeEstimate |-> settings.estimatedWaitTimes.minWaitTimeEstimate,
      maxWaitTimeEstimate |-> settings.estimatedWaitTimes.maxWaitTimeEstimate,
      suggestedMaxPriorityFeePerGas |->
        toString(weiToGwei(suggestedMaxPriorityFeePerGas)),
      suggestedMaxFeePerGas |-> toString(weiToGwei(suggestedMaxFeePerGas))]

calculateGasEstimatesForAllPriorityLevels(latestBaseFeePerGas, blocks) ==
  [priorityLevel \in RangeOf(PRIORITY_LEVELS) |->
     calculateGasEstimatesForPriorityLevel(priorityLevel, latestBaseFeePerGas,
                                           blocks)]

\* fetchGasEstimatesViaEthFeeHistory once the fee history is there; without a
\* block, reading latestBlock.baseFeePerGas is a TypeError.
GasEstimatesViaEthFeeHistory(blocks) ==
  IF blocks = <<>> THEN Threw
  ELSE LET latestBaseFeePerGas == latestBlock(blocks).baseFeePerGas
           levelSpecificGasEstimates ==
             calculateGasEstimatesForAllPriorityLevels(latestBaseFeePerGas,
                                                       blocks)
       IN [outcome |-> "returned",
           low |-> levelSpecificGasEstimates["low"],
           medium |-> levelSpecificGasEstimates["medium"],
           high |-> levelSpecificGasEstimates["high"],
           estimatedBaseFee |-> toString(weiToGwei(Rat(latestBaseFeePerGas, 1)))]

\* Base fees and priority fees of recent blocks (in units of 10^7 wei), and the
\* fee histories made of them.
BaseFees == {8000, 10045}
PriorityFees == {0, 125, 250}
RecentBlocks ==
  [baseFeePerGas : BaseFees,
   priorityFeesByPercentile : [RangeOf(PERCENTILES) -> PriorityFees]]
RecentFeeHistories == UNION {[1..n -> RecentBlocks] : n \in 0..MaxBlocks}

\* The lists medianOf is tried on.
MaxNumbers == 4
MedianNumbers == {0, 1, 4}
NumberLists == UNION {[1..n -> MedianNumbers] : n \in 0..MaxNumbers}

InitEstimates ==
  /\ Constructed
  /\ \/ \E blocks \in RecentFeeHistories :
          evaluation = [fn |-> "fetchGasEstimatesViaEthFeeHistory",
                        pc |-> "fetchFeeHistory",
                        blocks |-> blocks]
     \/ \E numbers \in NumberLists :
          evaluation = [fn |-> "medianOf", pc |-> "called", numbers |-> numbers]

\* fetchFeeHistory has resolved with evaluation.blocks: lines 155-166.
EstimatesDerived ==
  /\ evaluation.fn = "fetchGasEstimatesViaEthFeeHistory"
  /\ evaluation.pc = "fetchFeeHistory"
  /\ evaluation' = [fn |-> evaluation.fn,
                    pc |-> "settled",
                    blocks |-> evaluation.blocks,
                    result |-> GasEstimatesViaEthFeeHistory(evaluation.blocks)]
  /\ ControllerUntouched

\* medianOf runs on the caller's array.
MedianOfReturns ==
  /\ evaluation.fn = "medianOf"
  /\ evaluation.pc = "called"
  /\ evaluation' = [fn |-> evaluation.fn,
                    pc |-> "returned",
                    numbers |-> ArrayAfterMedianOf(evaluation.numbers),
                    result |-> medianOf(evaluation.numbers)]
  /\ ControllerUntouched

NextEstimates == EstimatesDerived \/ MedianOfReturns

SpecEstimates == InitEstimates /\ [][NextEstimates]_vars

\* --------------------------- AssetsDetectionController.detectTokens
\* Token addresses are numbered, in lower case throughout; the token list
\* holds the addresses 1..n in the order of its keys.
MAINNET == "mainnet"
NetworkTypes == {MAINNET, "ropsten"}
\* config.selectedAddress: not set (falsy), or an account.
SelectedAddresses == {"", "0x1"}
TokenListSizes == {0, 1, 2, 999, 1000, 1001, 1002}
TokenLists == {[i \in 1..n |-> i] : n \in TokenListSizes}
\* config.tokens: the addresses tracked already.
TrackedTokens == {{}, {1}, {2, 1002}}

\* The first slice holds the first 1000 addresses.
SLICE_SIZE == 1000

\* Array.prototype.slice(begin, end) for begin >= 0; a negative end counts
\* from the end of the array.
sliceBetween(array, begin, end) ==
  LET len == Len(array)
      from == IF begin > len THEN len ELSE begin
      to == IF end < 0 THEN (IF len + end < 0 THEN 0 ELSE len + end)
            ELSE IF end > len THEN len ELSE end
  IN IF to <= from THEN <<>> ELSE SubSeq(array, from + 1, to)

\* isMainnet()
isMainnet(networkType, disabled) == ~(networkType # MAINNET \/ disabled)

\* The addresses of the token list that config.tokens does not hold.
tokensToDetect(tokenList, tokens) ==
  SelectSeq(tokenList, LAMBDA address : address \notin tokens)

\* sliceOfTokensToDetect[0] and [1]
sliceOfTokensToDetect(toDetect) ==
  <<sliceBetween(toDetect, 0, SLICE_SIZE),
    sliceBetween(toDetect, SLICE_SIZE, Len(toDetect) - 1)>>

\* The head of the loop over the slices at index k (from 1): the loop ends
\* after the last slice and breaks at an empty one, and otherwise awaits
\* getBalancesInSingleCall(selectedAddress, tokensSlice).
AtSlice(call, k) ==
  IF k > Len(call.slices) \/ Len(call.slices[k]) = 0
  THEN [call EXCEPT !.pc = "returned", !.index = k]
  ELSE [call EXCEPT !.pc = "getBalancesInSingleCall", !.index = k,
                    !.submitted = Append(@, call.slices[k])]

InitDetectTokens ==
  /\ Constructed
  /\ \E networkType \in NetworkTypes, disabled \in BOOLEAN,
        selectedAddress \in SelectedAddresses, tokenList \in TokenLists,
        tokens \in TrackedTokens :
       evaluation = [fn |-> "detectTokens",
                     pc |-> "called",
                     networkType |-> networkType,
                     disabled |-> disabled,
                     selectedAddress |-> selectedAddress,
                     tokenList |-> tokenList,
                     tokens |-> tokens,
                     slices |-> <<>>,
                     index |-> 0,
                     submitted |-> <<>>]

\* detectTokens up to its first await, or to its return.
DetectTokensRuns ==
  /\ evaluation.fn = "detectTokens"
  /\ evaluation.pc = "called"
  /\ evaluation' =
       IF ~isMainnet(evaluation.networkType, evaluation.disabled)
       THEN [evaluation EXCEPT !.pc = "returned"]
       ELSE LET slices == sliceOfTokensToDetect(
                            tokensToDetect(evaluation.tokenList,
                                           evaluation.tokens))
                call == [evaluation EXCEPT !.slices = slices]
            IN IF evaluation.selectedAddress = ""
               THEN [call EXCEPT !.pc = "returned"]
               ELSE AtSlice(call, 1)
  /\ ControllerUntouched

\* The safelyExecute around a slice's balance check settles, whether the
\* check and addTokens succeeded or threw, and the loop goes on.
BalancesInSingleCallSettle ==
  /\ evaluation.fn = "detectTokens"
  /\ evaluation.pc = "getBalancesInSingleCall"
  /\ evaluation' = AtSlice(evaluation, evaluation.index + 1)
  /\ ControllerUntouched

NextDetectTokens == DetectTokensRuns \/ BalancesInSingleCallSettle

SpecDetectTokens == InitDetectTokens /\ [][NextDetectTokens]_vars

\* --------------------------------------------------------------- claims
EstimateRuns == {r \in RunIds : runs[r].pc # "idle" /\ runs[r].item = "gasFeeEstimates"}

InitialFetches(item) ==
  {r \in RunIds : /\ runs[r].pc \in InFlight
                  /\ runs[r].origin = "subscribe"
                  /\ runs[r].item = item}

\* C1: before the first tick, updateWithAndStartPollingFor calls for one item
\* that overlap invoke the item's producer at most once between them: no two
\* initial fetches of one item are in flight together.
C1_OverlappingSubscribesFetchOnce ==
  \A item \in Items : Cardinality(InitialFetches(item)) <= 1

\* C2: once stopPolling() has returned, and until updateWithAndStartPollingFor
\* is called again, no poll timer is pending.
C2_NoTimerAfterStopPolling ==
  quiesced # "active" => intervalId # "live" /\ orphanTimers = 0

\* C3: at most one tick's batch of producers is in flight at any time.
C3_OneBatchInFlight == Cardinality(batches) <= 1

\* C4: once destroy() has returned, and as long as no public method is called,
\* the poll queue stays empty.
C4_DestroyIsTerminal == quiesced = "destroyed" => pollQueue = {}

\* C5: an estimate is committed to the state only while the network selected
\* is still the one whose chain id the fetch read when it started.
C5_CommitsOnlyForSelectedNetwork ==
  [][\A r \in RunIds :
       ( /\ runs[r].pc \in InFlight
         /\ runs[r].item = "gasFeeEstimates"
         /\ runs[r].shouldUpdateState
         /\ runs'[r].pc = "resolved" )
       => runs[r].chainId = selectedNetwork]_vars

FEE_MARKET_KEYS == {"low", "medium", "high", "estimatedBaseFee"}
LEGACY_KEYS == {"low", "medium", "high"}
ETH_GASPRICE_KEYS == {"gasPrice"}

\* The shape of gasFeeEstimates and of the time bounds that goes with a type.
ShapeMatches(s) ==
  CASE s.gasEstimateType = GAS_ESTIMATE_TYPES.NONE ->
         /\ s.gasFeeEstimates = EmptyObject
         /\ s.estimatedGasFeeTimeBounds = EmptyObject
    [] s.gasEstimateType = GAS_ESTIMATE_TYPES.FEE_MARKET ->
         /\ DOMAIN s.gasFeeEstimates = FEE_MARKET_KEYS
         /\ DOMAIN s.estimatedGasFeeTimeBounds \in {{}, {"lowerTimeBound", "upperTimeBound"}}
    [] s.gasEstimateType = GAS_ESTIMATE_TYPES.LEGACY ->
         /\ DOMAIN s.gasFeeEstimates = LEGACY_KEYS
         /\ s.estimatedGasFeeTimeBounds = EmptyObject
    [] s.gasEstimateType = GAS_ESTIMATE_TYPES.ETH_GASPRICE ->
         /\ DOMAIN s.gasFeeEstimates = ETH_GASPRICE_KEYS
         /\ s.estimatedGasFeeTimeBounds = EmptyObject
    [] OTHER -> FALSE

\* C6: in every reachable state the shape of gasFeeEstimates (and of the time
\* bounds) is the one of gasEstimateType: the three fields change together.
C6_ShapeMatchesType == ShapeMatches(state)

\* C6 witness: a legacy estimate is in the state while a poll that will
\* replace it by one of another type is in flight.
C6_Witness ==
  /\ state.gasEstimateType = GAS_ESTIMATE_TYPES.LEGACY
  /\ \E r \in RunIds : runs[r].pc = "ethGasPrice" /\ runs[r].origin = "tick"

\* A run of _fetchGasFeeEstimateData that got past reading the chain id and
\* past the compatibility check.
PastCompatibility(r) ==
  /\ r \in EstimateRuns
  /\ runs[r].pc # "compat"
  /\ runs[r].chainId # NaN

\* C7: on a fee-market compatible network the legacy source is never invoked;
\* when the fee-market fetch throws the single gas price source is next, and a
\* result then has type eth_gasPrice.
C7_FeeMarketFallsBackToEthGasPrice ==
  \A r \in RunIds :
    (PastCompatibility(r) /\ runs[r].isEIP1559Compatible) =>
      /\ "feeMarket" \in runs[r].called
      /\ "legacy" \notin runs[r].called
      /\ runs[r].pc \in {"feeMarket", "ethGasPrice", "resolved", "rejected"}
      /\ runs[r].pc = "rejected" => "ethGasPrice" \in runs[r].called
      /\ runs[r].pc = "resolved" =>
           IF "ethGasPrice" \in runs[r].called
           THEN /\ runs[r].result.gasEstimateType = GAS_ESTIMATE_TYPES.ETH_GASPRICE
                /\ DOMAIN runs[r].result.gasFeeEstimates = ETH_GASPRICE_KEYS
           ELSE runs[r].result.gasEstimateType = GAS_ESTIMATE_TYPES.FEE_MARKET

\* C7 witness: the fee-market fetch of a legacy-compatible network has thrown
\* and the call has returned an eth_gasPrice estimate.
C7_Witness ==
  \E r \in RunIds :
    /\ PastCompatibility(r)
    /\ runs[r].isEIP1559Compatible
    /\ runs[r].isLegacyGasAPICompatible
    /\ runs[r].pc = "resolved"
    /\ runs[r].called = {"feeMarket", "ethGasPrice"}

\* C8: on a network that is neither fee-market nor legacy compatible only the
\* single gas price source is invoked, and a result has type eth_gasPrice and
\* no time bounds.
C8_OnlyEthGasPriceWhenIncompatible ==
  \A r \in RunIds :
    ( /\ PastCompatibility(r)
      /\ ~runs[r].isEIP1559Compatible
      /\ ~runs[r].isLegacyGasAPICompatible ) =>
      /\ runs[r].called = {"ethGasPrice"}
      /\ runs[r].pc = "resolved" =>
           /\ runs[r].result.gasEstimateType = GAS_ESTIMATE_TYPES.ETH_GASPRICE
           /\ DOMAIN runs[r].result.gasFeeEstimates = ETH_GASPRICE_KEYS
           /\ runs[r].result.estimatedGasFeeTimeBounds = EmptyObject

\* C8 witness: such a call has returned its estimate while the state held
\* fee-market time bounds.
C8_Witness ==
  \E r \in RunIds :
    /\ PastCompatibility(r)
    /\ ~runs[r].isEIP1559Compatible
    /\ ~runs[r].isLegacyGasAPICompatible
    /\ runs[r].pc = "resolved"
    /\ ~runs[r].shouldUpdateState
    /\ state.estimatedGasFeeTimeBounds # EmptyObject

\* C9: on a network that is legacy but not fee-market compatible the legacy
\* source is the only one invoked until it throws; when its fetch succeeds the
\* result has type legacy, carries the fetched prices and no time bounds, and
\* is what an updating call commits.
C9_LegacySourceResult ==
  [][\A r \in RunIds :
       ( /\ PastCompatibility(r)
         /\ ~runs[r].isEIP1559Compatible
         /\ runs[r].isLegacyGasAPICompatible ) =>
         /\ "legacy" \in runs[r].called
         /\ "feeMarket" \notin runs[r].called
         /\ runs[r].pc = "legacy" => runs[r].called = {"legacy"}
         /\ (runs[r].pc = "legacy" /\ runs'[r].pc = "resolved") =>
              /\ runs'[r].called = {"legacy"}
              /\ runs'[r].result.gasEstimateType = GAS_ESTIMATE_TYPES.LEGACY
              /\ \E v \in Vals :
                   runs'[r].result.gasFeeEstimates = LegacyGasPriceEstimateOf(v)
              /\ runs'[r].result.estimatedGasFeeTimeBounds = EmptyObject
              /\ runs[r].shouldUpdateState =>
                   /\ state'.gasFeeEstimates = runs'[r].result.gasFeeEstimates
                   /\ state'.gasEstimateType = GAS_ESTIMATE_TYPES.LEGACY]_vars

\* C9 witness: a legacy fetch has succeeded while the state held fee-market
\* time bounds.
C9_Witness ==
  \E r \in RunIds :
    /\ PastCompatibility(r)
    /\ runs[r].pc = "resolved"
    /\ runs[r].called = {"legacy"}
    /\ ~runs[r].shouldUpdateState
    /\ state.estimatedGasFeeTimeBounds # EmptyObject

\* C10: a call of _fetchGasFeeEstimateData fails only when the chain id cannot
\* be normalized or the single gas price source fails; it then rejects, and
\* neither the failing step nor any earlier step of the call has written the
\* state: the state changes only in a step in which a call succeeds.
C10_FailureLeavesState ==
  [][/\ \A r \in RunIds :
          (runs[r].pc # "rejected" /\ runs'[r].pc = "rejected") =>
            /\ runs[r].pc \in {"idle", "ethGasPrice"}
            /\ state' = state
     /\ state' # state =>
          \E r \in RunIds : runs[r].pc \in InFlight /\ runs'[r].pc = "resolved"]_vars

\* C10 witness: a call has failed in its fallback while the state holds an
\* earlier estimate.
C10_Witness ==
  \E r \in RunIds :
    /\ runs[r].pc = "rejected"
    /\ "ethGasPrice" \in runs[r].called
    /\ state.gasEstimateType # GAS_ESTIMATE_TYPES.NONE

\* A step in which the fee-market fetch of call r succeeds.
FeeMarketFetchSucceeds(r) ==
  /\ r \in EstimateRuns
  /\ runs[r].pc = "feeMarket"
  /\ runs[r].origin = "direct"
  /\ runs'[r].pc = "resolved"

\* The time bounds the time-estimation function gives for a fee-market result.
TimeBoundsOf(result) ==
  calculateTimeEstimate(result.gasFeeEstimates.medium.suggestedMaxPriorityFeePerGas,
                        result.gasFeeEstimates.medium.suggestedMaxFeePerGas,
                        state.gasFeeEstimates)

\* C11 as stated: every successful fee-market fetch returns the time bounds
\* computed by the time-estimation function from the fetched medium tier,
\* whatever estimate type the state held before the fetch.
C11_TimeBoundsAlwaysComputed ==
  [][\A r \in RunIds :
       FeeMarketFetchSucceeds(r) =>
         runs'[r].result.estimatedGasFeeTimeBounds = TimeBoundsOf(runs'[r].result)]_vars

\* C11 amended: a successful fee-market fetch returns the time bounds computed
\* by the time-estimation function from the fetched medium tier when the state
\* held a fee-market estimate as the fetch succeeded, and {} otherwise.
C11_TimeBoundsComputedOverFeeMarketState ==
  [][\A r \in RunIds :
       FeeMarketFetchSucceeds(r) =>
         /\ runs'[r].result.gasEstimateType = GAS_ESTIMATE_TYPES.FEE_MARKET
         /\ runs'[r].result.estimatedGasFeeTimeBounds =
              IF state.gasEstimateType = GAS_ESTIMATE_TYPES.FEE_MARKET
              THEN TimeBoundsOf(runs'[r].result)
              ELSE EmptyObject]_vars

\* C11 witness: a fee-market fetch has succeeded over the initial state and
\* has returned no time bounds.
C11_Witness ==
  \E r \in RunIds :
    /\ runs[r].pc = "resolved"
    /\ runs[r].called = {"feeMarket"}
    /\ ~runs[r].shouldUpdateState
    /\ state = defaultState
    /\ runs[r].result.estimatedGasFeeTimeBounds = EmptyObject

\* C12: after every completed run of determineWhetherNetworkCongested the
\* flag in state is the boolean that run returned, whichever branch of the
\* run produced it.
C12_CongestionFlagIsLastResult ==
  \A isNetworkCongested \in lastCongestionResult :
    state.isNetworkCongested = isNetworkCongested

\* C13: a producer's failure reaches a caller only through
\* fetchGasFeeEstimates: no call of updateWithAndStartPollingFor rejects with
\* one (and a tick hands none to anyone).
C13_FailuresSurfaceOnlyDirectly ==
  \A r \in RunIds : runs[r].pc = "rejected" => runs[r].origin = "direct"

\* A step in which producer call r of a tick settles, either way.
TickRunSettles(r) ==
  /\ runs[r].pc \in InFlight
  /\ runs[r].origin = "tick"
  /\ runs'[r].pc = "idle"

BatchOf(r) == CHOOSE batch \in batches : r \in batch.pending

\* The batches of the next state whose producers have all just been started.
NewBatches ==
  {batch \in batches' : \A q \in batch.pending : runs[q].pc = "idle"}

\* C14: within a tick every queued item's producer is started, and when one
\* producer of the tick settles (fails included) the other producers of the
\* tick go on untouched, a producer that completes after another has failed
\* still commits the result it returns, the tick completes when the last one
\* has settled, and the next tick is then scheduled.
C14_TickSurvivesFailure ==
  [][/\ \A batch \in NewBatches :
          /\ {runs'[q].item : q \in batch.pending} \cup batch.swallowed = pollQueue
          /\ \A q \in batch.pending : runs'[q].pc \in InFlight
     /\ \A r \in RunIds :
          TickRunSettles(r) =>
            LET batch == BatchOf(r)
            IN /\ \A q \in RunIds \ {r} : runs'[q] = runs[q]
               /\ pollQueue' = pollQueue
               /\ (batch.swallowed # {} /\ lastCongestionResult' # lastCongestionResult) =>
                    lastCongestionResult' = {state'.isNetworkCongested}
               /\ IF batch.pending = {r}
                  THEN /\ batches' = batches \ {batch}
                       /\ intervalId' = "live"
                  ELSE /\ \E rest \in batches' :
                            /\ rest.pending = batch.pending \ {r}
                            /\ batch.swallowed \subseteq rest.swallowed
                       /\ intervalId' = intervalId]_vars

\* A step in which updateWithAndStartPollingFor invokes a producer as call r.
SubscribeStarts(r) ==
  /\ runs[r].pc = "idle"
  /\ runs'[r].pc # "idle"
  /\ runs'[r].origin = "subscribe"

\* C15: updateWithAndStartPollingFor(item) invokes the producer only of an
\* item that is not in pollQueue, and the step of the call itself changes
\* neither pollQueue nor the timer; so a call for an item already in
\* pollQueue invokes nothing, leaves pollQueue as it is and starts no timer.
C15_SubscribedItemIsNotFetchedAgain ==
  [][/\ \A r \in RunIds :
          SubscribeStarts(r) =>
            /\ runs'[r].item \notin pollQueue
            /\ pollQueue' = pollQueue
            /\ <<intervalId, orphanTimers>>' = <<intervalId, orphanTimers>>
     /\ (quiesced # "active" /\ quiesced' = "active"
           /\ \A r \in RunIds : ~SubscribeStarts(r)) =>
          /\ pollQueue # {}
          /\ <<state, pollQueue, intervalId, orphanTimers, batches, runs>>' =
               <<state, pollQueue, intervalId, orphanTimers, batches, runs>>]_vars

\* C15 witness: an item is polled, its timer is pending and no producer is in
\* flight: the state a call for that item is made in, and leaves as it is.
C15_Witness ==
  /\ quiesced = "active"
  /\ pollQueue # {}
  /\ intervalId = "live"
  /\ \A r \in RunIds : runs[r].pc = "idle"

\* How many times the tick that made the given batch invoked an item's
\* producer: the calls in flight, and the call that threw on the spot.
InvocationsIn(batch, item) ==
  Cardinality({q \in batch.pending : runs'[q].item = item})
    + (IF item \in batch.swallowed THEN 1 ELSE 0)

\* C16: a tick invokes the producer of every item in pollQueue exactly once
\* and no other producer, and every producer call a tick starts is one of
\* these.
C16_TickInvokesEachItemOnce ==
  [][/\ Cardinality(NewBatches) <= 1
     /\ \A batch \in NewBatches :
          \A item \in Items :
            InvocationsIn(batch, item) = IF item \in pollQueue THEN 1 ELSE 0
     /\ \A r \in RunIds :
          (runs[r].pc = "idle" /\ runs'[r].pc # "idle" /\ runs'[r].origin = "tick") =>
            \E batch \in NewBatches : r \in batch.pending]_vars

\* C16 witness: a tick has started the producers of both items, each once.
C16_Witness ==
  /\ pollQueue = Items
  /\ \E batch \in batches :
       /\ Cardinality(batch.pending) = 2
       /\ \A r \in batch.pending : runs[r].pc = "compat"

\* C17: the first updateWithAndStartPollingFor made after stopPolling() has
\* returned, with no producer call in flight, behaves like the first-ever
\* one: it invokes the producer of its item, exactly once.
C17_SubscribeAfterStopFetches ==
  [][( /\ quiesced = "stopped"
       /\ quiesced' = "active"
       /\ \A r \in RunIds : runs[r].pc = "idle" ) =>
       Cardinality({r \in RunIds : SubscribeStarts(r)}) = 1]_vars

\* C18: a step that takes items out of pollQueue while polling stays active
\* (stopPollingFor: stopPolling and destroy end it) takes out exactly one
\* item and changes nothing else: the other items stay queued, the timer is
\* left as it is, and the producer calls in flight go on.
C18_StopPollingForRemovesOneItem ==
  [][( /\ pollQueue' # pollQueue
       /\ pollQueue' \subseteq pollQueue
       /\ quiesced = "active"
       /\ quiesced' = "active" ) =>
       /\ Cardinality(pollQueue \ pollQueue') = 1
       /\ <<state, intervalId, orphanTimers, batches, runs>>' =
            <<state, intervalId, orphanTimers, batches, runs>>]_vars

\* C18 witness: the congestion item has been taken out of the queue while its
\* producer call of the current tick is in flight; the estimates item is
\* still queued.
C18_Witness ==
  /\ quiesced = "active"
  /\ pollQueue = {"gasFeeEstimates"}
  /\ \E batch \in batches :
       /\ Cardinality(batch.pending) = 2
       /\ \E r \in batch.pending : runs[r].item = "isNetworkCongested"

\* What a call of _fetchGasFeeEstimateData can return when the source it is
\* awaiting succeeds: a function of the source, of its answer and of the
\* state, not of the shouldUpdateState option.
ResultsOf(source) ==
  CASE source = "feeMarket" -> {FeeMarketState(GasFeeEstimatesOf(v)) : v \in Vals}
    [] source = "legacy" -> {LegacyState(LegacyGasPriceEstimateOf(v)) : v \in Vals}
    [] source = "ethGasPrice" -> {EthGasPriceState(EthGasPriceEstimateOf(v)) : v \in Vals}
    [] OTHER -> {}

\* C19: a successful fetch returns a result that does not depend on
\* shouldUpdateState; with shouldUpdateState false it leaves the four state
\* fields as they were, with true it sets the three estimate fields to the
\* result it returns and leaves isNetworkCongested as it was.
C19_ShouldUpdateStateOnlyGatesCommit ==
  [][\A r \in RunIds :
       ( /\ r \in EstimateRuns
         /\ runs[r].origin = "direct"
         /\ runs[r].pc \in InFlight
         /\ runs'[r].pc = "resolved" ) =>
         /\ runs'[r].result \in ResultsOf(runs[r].pc)
         /\ IF runs[r].shouldUpdateState
            THEN /\ state'.gasFeeEstimates = runs'[r].result.gasFeeEstimates
                 /\ state'.estimatedGasFeeTimeBounds =
                      runs'[r].result.estimatedGasFeeTimeBounds
                 /\ state'.gasEstimateType = runs'[r].result.gasEstimateType
                 /\ state'.isNetworkCongested = state.isNetworkCongested
            ELSE state' = state]_vars

\* C19 witness: two fetches have returned different results, the one made
\* with shouldUpdateState false and the other with true, and the state holds
\* the result of the latter.
C19_Witness ==
  \E r, q \in RunIds :
    /\ runs[r].pc = "resolved"
    /\ runs[q].pc = "resolved"
    /\ ~runs[r].shouldUpdateState
    /\ runs[q].shouldUpdateState
    /\ runs[r].result # runs[q].result
    /\ state.gasFeeEstimates = runs[q].result.gasFeeEstimates
    /\ state.gasEstimateType = runs[q].result.gasEstimateType

\* The URL a gas API is to be asked at for chain id n.
UrlFor(source, n) ==
  <<IF source = "feeMarket" THEN "http://eip-1559.endpoint/"
    ELSE "http://legacy.endpoint/">> \o NumberToString(n, 10)

\* C20: whichever shape getChainId gave the chain id n in (hex string,
\* decimal string or number), the fee-market or legacy source is called
\* with the endpoint in which <chain_id> is n in decimal, and with the
\* configured client id.
C20_SourceUrlCarriesDecimalChainId ==
  \A r \in RunIds :
    (r \in EstimateRuns /\ runs[r].pc \in {"feeMarket", "legacy"}) =>
      /\ runs[r].chainId = runs[r].forNetwork
      /\ runs[r].request =
           [url |-> UrlFor(runs[r].pc, runs[r].forNetwork), clientId |-> clientId]

\* C20 witness: the fee-market API is being asked for chain id 10, whose hex
\* string 0xa and decimal string 10 differ, and the legacy API for chain id 1.
C20_Witness ==
  /\ \E r \in RunIds :
       /\ runs[r].pc = "feeMarket"
       /\ runs[r].forNetwork = 10
       /\ runs[r].request.url = <<"http://eip-1559.endpoint/", "1", "0">>
  /\ \E r \in RunIds :
       /\ runs[r].pc = "legacy"
       /\ runs[r].forNetwork = 1
       /\ runs[r].request.url = <<"http://legacy.endpoint/", "1">>

\* The 50th-percentile priority fees a window collects, as a set.
CollectedFees(blocks) ==
  {blocks[i].priorityFeesByPercentile[50] :
     i \in {k \in 1..Len(blocks) : 50 \in DOMAIN blocks[k].priorityFeesByPercentile}}

CongestionCheckReturned ==
  /\ evaluation.fn = "determineWhetherNetworkCongested"
  /\ evaluation.pc = "returned"

\* C21: for a non-empty collected window, the flag is true exactly when
\* max >= 1.10 * min, the boundary included (min 100, max 110 is congested,
\* min 100, max 109 is not).
C21_CongestedIffTenPercentSpread ==
  (CongestionCheckReturned /\ CollectedFees(evaluation.blocks) # {}) =>
    LET fees == CollectedFees(evaluation.blocks)
        min == CHOOSE f \in fees : \A g \in fees : f <= g
        max == CHOOSE f \in fees : \A g \in fees : f >= g
    IN /\ evaluation.isNetworkCongested <=> (10 * max >= 11 * min)
       /\ state.isNetworkCongested = evaluation.isNetworkCongested

\* C22: when every block of the window has the same 50th-percentile priority
\* fee, zero included, the network is reported as not congested.
C22_NoSpreadIsNotCongested ==
  ( /\ CongestionCheckReturned
    /\ evaluation.blocks # <<>>
    /\ \E f \in Fees :
         \A i \in 1..Len(evaluation.blocks) :
           evaluation.blocks[i].priorityFeesByPercentile = [p \in {50} |-> f] ) =>
    /\ ~evaluation.isNetworkCongested
    /\ ~state.isNetworkCongested

FeeHistorySettled ==
  /\ evaluation.fn \in FeeHistoryExports
  /\ evaluation.pc = "settled"

FeeHistoryReturned ==
  /\ FeeHistorySettled
  /\ evaluation.result.outcome = "returned"

\* C23: whatever the order and the duplicates of the given percentiles, the
\* eth_feeHistory request carries the distinct percentiles in ascending
\* order, and every returned block's priorityFeesByPercentile has exactly
\* those percentiles as keys.
C23_RequestCarriesSortedDistinctPercentiles ==
  (evaluation.fn \in FeeHistoryExports /\ evaluation.pc # "called") =>
    LET percentiles == evaluation.request.percentiles
    IN /\ RangeOf(percentiles) = RangeOf(evaluation.givenPercentiles)
       /\ \A i, j \in 1..Len(percentiles) :
            i < j => percentiles[i] < percentiles[j]
       /\ FeeHistoryReturned =>
            \A i \in 1..Len(evaluation.result.blocks) :
              DOMAIN evaluation.result.blocks[i].priorityFeesByPercentile =
                RangeOf(evaluation.givenPercentiles)

\* A response as the node gives it to a request for numberOfBlocks blocks:
\* one base fee more than blocks, a ratio and a reward row per block, and in
\* each row one fee per requested percentile (the same fee where the same
\* percentile was requested twice).
WellFormedResponse ==
  LET response == evaluation.response
      percentiles == evaluation.request.percentiles
  IN /\ Len(response.baseFeePerGas) = evaluation.numberOfBlocks + 1
     /\ Len(response.gasUsedRatio) = evaluation.numberOfBlocks
     /\ Len(response.reward) = evaluation.numberOfBlocks
     /\ \A i \in 1..Len(response.reward) :
          /\ Len(response.reward[i]) = Len(percentiles)
          /\ \A j, k \in 1..Len(percentiles) :
               percentiles[j] = percentiles[k] =>
                 response.reward[i][j] = response.reward[i][k]

\* C24: for a well-formed response to a request for N blocks the result has
\* exactly N blocks in response order, block i holding base fee i, ratio i
\* and reward[i][j] under the j-th requested percentile, so that the trailing
\* base fee is in no block; and no result has more than N blocks.
C24_BlocksFollowTheResponse ==
  FeeHistorySettled =>
    LET response == evaluation.response
        percentiles == evaluation.request.percentiles
        result == evaluation.result
    IN /\ result.outcome = "returned" =>
            Len(result.blocks) <= evaluation.numberOfBlocks
       /\ WellFormedResponse =>
            /\ result.outcome = "returned"
            /\ result.startBlockId = response.oldestBlock
            /\ Len(result.blocks) = evaluation.numberOfBlocks
            /\ \A i \in 1..Len(result.blocks) :
                 /\ result.blocks[i].baseFeePerGas =
                      hexToDec(response.baseFeePerGas[i])
                 /\ result.blocks[i].gasUsedRatio = response.gasUsedRatio[i]
                 /\ \A j \in 1..Len(percentiles) :
                      result.blocks[i].priorityFeesByPercentile[percentiles[j]] =
                        hexToDec(response.reward[i][j])

\* C24 witness: two blocks were asked for with two percentiles, the response
\* is well formed and its third base fee differs from the first two, and two
\* blocks came back.
C24_Witness ==
  /\ FeeHistoryReturned
  /\ WellFormedResponse
  /\ evaluation.numberOfBlocks = 2
  /\ Len(evaluation.request.percentiles) = 2
  /\ evaluation.response.baseFeePerGas[3] # evaluation.response.baseFeePerGas[1]
  /\ evaluation.response.baseFeePerGas[3] # evaluation.response.baseFeePerGas[2]
  /\ evaluation.response.reward[1][1] # evaluation.response.reward[1][2]
  /\ Len(evaluation.result.blocks) = 2

\* C25: when one of the three arrays of the response is empty the call
\* returns normally, with no blocks and the response's oldestBlock as
\* startBlockId, whatever the other two arrays hold.
C25_EmptyArrayGivesEmptyHistory ==
  ( /\ FeeHistorySettled
    /\ \/ evaluation.response.baseFeePerGas = <<>>
       \/ evaluation.response.gasUsedRatio = <<>>
       \/ evaluation.response.reward = <<>> ) =>
    evaluation.result =
      [outcome |-> "returned",
       startBlockId |-> evaluation.response.oldestBlock,
       blocks |-> <<>>]

\* C25 witness: only the reward array was empty, blocks were asked for, and
\* the call returned no blocks.
C25_Witness ==
  /\ FeeHistoryReturned
  /\ evaluation.numberOfBlocks > 0
  /\ evaluation.response.reward = <<>>
  /\ Len(evaluation.response.baseFeePerGas) > 1
  /\ Len(evaluation.response.gasUsedRatio) > 1
  /\ evaluation.response.oldestBlock = "0xcb1939"
  /\ evaluation.result.startBlockId = "0xcb1939"
  /\ evaluation.result.blocks = <<>>

\* A non-empty response whose truncated base fees, ratios and reward rows
\* differ in number, or in which the reward row of a block has fewer fees
\* than percentiles were requested.
MalformedResponse ==
  LET response == evaluation.response
      baseFees == slice(response.baseFeePerGas, evaluation.numberOfBlocks)
  IN /\ response.baseFeePerGas # <<>>
     /\ response.gasUsedRatio # <<>>
     /\ response.reward # <<>>
     /\ \/ Len(baseFees) # Len(response.gasUsedRatio)
        \/ Len(baseFees) # Len(response.reward)
        \/ Len(response.gasUsedRatio) # Len(response.reward)
        \/ \E i \in 1..Len(response.reward) :
             /\ i <= Len(baseFees)
             /\ Len(response.reward[i]) < Len(evaluation.request.percentiles)

\* C26: a malformed non-empty response is rejected with an error, never
\* turned into blocks with a missing or defaulted value.
C26_MalformedResponseIsRejected ==
  (FeeHistorySettled /\ MalformedResponse) =>
    evaluation.result.outcome = "threw"

\* The integer a hex string writes, as a reference decoder reads it.
ExactInteger(hex) == StripLeadingZeros(BitsOf(SubSeq(hex, 3, Len(hex))))

\* C27: every decoded base fee and priority fee is the exact integer of its
\* hex string, values of 2^53 and above included.
C27_FeesDecodeExactly ==
  FeeHistoryReturned =>
    LET response == evaluation.response
        percentiles == evaluation.request.percentiles
        blocks == evaluation.result.blocks
    IN \A i \in 1..Len(blocks) :
         /\ blocks[i].baseFeePerGas = ExactInteger(response.baseFeePerGas[i])
         /\ \A j \in 1..Len(percentiles) :
              ( /\ i <= Len(response.reward)
                /\ j <= Len(response.reward[i])
                /\ LastIndexOf(percentiles, percentiles[j]) = j ) =>
                blocks[i].priorityFeesByPercentile[percentiles[j]] =
                  ExactInteger(response.reward[i][j])

\* The k-th smallest of a list of numbers, by counting.
KthSmallest(numbers, k) ==
  CHOOSE x \in RangeOf(numbers) :
    /\ Cardinality({i \in 1..Len(numbers) : numbers[i] < x}) < k
    /\ k <= Cardinality({i \in 1..Len(numbers) : numbers[i] <= x})

\* The number a decimal string writes.
RECURSIVE ParseDecimal(_, _, _, _, _)
ParseDecimal(chars, i, num, den, seenPoint) ==
  IF i > Len(chars) THEN Rat(num, den)
  ELSE IF chars[i] = "." THEN ParseDecimal(chars, i + 1, num, den, TRUE)
  ELSE ParseDecimal(chars, i + 1, 10 * num + DigitValue(chars[i]),
                    IF seenPoint THEN 10 * den ELSE den, seenPoint)

DecimalValue(chars) == ParseDecimal(chars, 1, 0, 1, FALSE)

\* Per tier: its percentile, the percentage of the median it keeps, its floor
\* in half gwei and its base fee multiplier in tenths.
TierTerms ==
  [low |-> [percentile |-> 10, kept |-> 94, floor |-> 2, multiplier |-> 12],
   medium |-> [percentile |-> 20, kept |-> 97, floor |-> 3, multiplier |-> 13],
   high |-> [percentile |-> 30, kept |-> 98, floor |-> 4, multiplier |-> 14]]

EstimatesSettled ==
  /\ evaluation.fn = "fetchGasEstimatesViaEthFeeHistory"
  /\ evaluation.pc = "settled"

\* C28: for each tier the suggested priority fee is the larger of the median
\* of the tier's percentile fee over all fetched blocks times (1 - the tier's
\* reduction) and the tier's floor (1, 1.5, 2 gwei), and the suggested max fee
\* is the newest block's base fee times the tier's multiplier plus that
\* priority fee.
C28_SuggestedFeesPerTier ==
  (EstimatesSettled /\ evaluation.blocks # <<>>) =>
    /\ evaluation.result.outcome = "returned"
    /\ \A tier \in {"low", "medium", "high"} :
         LET blocks == evaluation.blocks
             n == Len(blocks)
             terms == TierTerms[tier]
             fees == [i \in 1..n |->
                        blocks[i].priorityFeesByPercentile[terms.percentile]]
             twiceMedian == KthSmallest(fees, (n + 1) \div 2)
                              + KthSmallest(fees, n \div 2 + 1)
             \* in two-hundredths of a unit
             adjusted == twiceMedian * terms.kept
             floor == terms.floor * GWEI * 100
             priority == IF adjusted > floor THEN adjusted ELSE floor
             maxFee == blocks[n].baseFeePerGas * terms.multiplier * 20 + priority
             suggested == evaluation.result[tier]
         IN /\ DecimalValue(suggested.suggestedMaxPriorityFeePerGas) =
                 Rat(priority, 200 * GWEI)
            /\ ~LessThan(DecimalValue(suggested.suggestedMaxPriorityFeePerGas),
                         Rat(terms.floor, 2))
            /\ DecimalValue(suggested.suggestedMaxFeePerGas) =
                 Rat(maxFee, 200 * GWEI)

\* C28 witness: two blocks with different base fees and different 10th
\* percentile fees; the low tier's priority fee is above its floor (1.7625
\* gwei), the medium tier's is its floor.
C28_Witness ==
  /\ EstimatesSettled
  /\ Len(evaluation.blocks) = 2
  /\ evaluation.blocks[1].baseFeePerGas # evaluation.blocks[2].baseFeePerGas
  /\ evaluation.blocks[1].priorityFeesByPercentile[10] = 125
  /\ evaluation.blocks[2].priorityFeesByPercentile[10] = 250
  /\ evaluation.result.outcome = "returned"
  /\ evaluation.result.low.suggestedMaxPriorityFeePerGas =
       <<"1", ".", "7", "6", "2", "5">>
  /\ evaluation.result.medium.suggestedMaxPriorityFeePerGas = <<"1", ".", "5">>

\* C29: for a non-empty list in any order medianOf returns the middle element
\* of the sorted list when the length is odd, the mean of the two central
\* elements when it is even, and leaves its input list in the order it had.
C29_MedianOfSortedList ==
  [][ ( /\ evaluation.fn = "medianOf"
        /\ evaluation.pc = "called"
        /\ evaluation.numbers # <<>>
        /\ evaluation'.pc = "returned" ) =>
      LET numbers == evaluation.numbers
          n == Len(numbers)
      IN /\ evaluation'.numbers = numbers
         /\ n % 2 = 1 =>
              evaluation'.result = Rat(KthSmallest(numbers, (n + 1) \div 2), 1)
         /\ n % 2 = 0 =>
              evaluation'.result =
                Rat(KthSmallest(numbers, n \div 2)
                      + KthSmallest(numbers, n \div 2 + 1), 2)
    ]_vars

\* C29 witness: medianOf has returned 1/2 for the unsorted list 4, 0, 1, 0,
\* and 1 for the unsorted list 4, 0, 1.
C29_Witness ==
  /\ evaluation.fn = "medianOf"
  /\ evaluation.pc = "returned"
  /\ \/ /\ evaluation.numbers = <<4, 0, 1, 0>>
        /\ evaluation.result = [num |-> 1, den |-> 2]
     \/ /\ evaluation.numbers = <<4, 0, 1>>
        /\ evaluation.result = [num |-> 1, den |-> 1]

\* C30: once stopPollingFor(item) has returned and until
\* updateWithAndStartPollingFor(item) is called again, no tick invokes the
\* item's producer, and a call of updateWithAndStartPollingFor(item) started
\* before does not bring the item back into the queue.
C30_UnsubscribedItemStaysUnpolled ==
  [][ \A item \in unsubscribed \cap unsubscribed' :
        /\ item \notin pollQueue'
        /\ \A r \in RunIds :
             ( /\ runs[r].pc = "idle"
               /\ runs'[r].pc # "idle"
               /\ runs'[r].origin = "tick" ) => runs'[r].item # item
    ]_vars

\* The step of run r in which its compatibility check answers.
CompatibilityAnswered(r) ==
  /\ runs[r].pc = "compat"
  /\ runs'[r].pc # "compat"
  /\ evaluation'.fn = "getEIP1559Compatibility"
  /\ evaluation'.run = r

\* C31: when the network's or the account's compatibility function throws,
\* no error reaches the producer's caller: the estimate fetch turns to the
\* legacy API on a legacy-compatible network and to eth_gasPrice otherwise, as
\* it does on a network that is not fee-market compatible, and the congestion
\* check returns false without asking for the fee history; no state is
\* written in that step.
C31_CompatibilityErrorReadsAsIncompatible ==
  [][ \A r \in RunIds :
        ( /\ CompatibilityAnswered(r)
          /\ "throw" \in {evaluation'.network, evaluation'.account} ) =>
          /\ state' = state
          /\ IF runs[r].item = "gasFeeEstimates"
             THEN runs'[r].pc = IF runs[r].isLegacyGasAPICompatible
                                THEN "legacy" ELSE "ethGasPrice"
             ELSE /\ runs'[r].pc = "idle"
                  /\ lastCongestionResult' = {FALSE}
                  /\ runs[r].item \in pollQueue'
    ]_vars

\* C31 witness: the network's function answered true and the account's threw,
\* a congestion check has returned false, and the estimate fetch whose check
\* that was is waiting for the legacy API.
C31_Witness ==
  /\ evaluation.fn = "getEIP1559Compatibility"
  /\ evaluation.network = "true"
  /\ evaluation.account = "throw"
  /\ evaluation.run \in RunIds
  /\ runs[evaluation.run].pc = "legacy"
  /\ lastCongestionResult = {FALSE}

\* C32: when the network or the account is not fee-market compatible, the
\* congestion check returns false in the step its compatibility check
\* answers, and it never waits for a fee history.
C32_IncompatibleCheckFetchesNoFeeHistory ==
  [][ \A r \in RunIds :
        /\ ( /\ CompatibilityAnswered(r)
             /\ runs[r].item = "isNetworkCongested"
             /\ ~getEIP1559Compatibility(evaluation'.network,
                                         evaluation'.account) ) =>
             /\ runs'[r].pc = "idle"
             /\ lastCongestionResult' = {FALSE}
        /\ runs'[r].pc = "feeHistory" =>
             /\ runs'[r].isEIP1559Compatible
             /\ runs'[r].item = "isNetworkCongested"
    ]_vars

\* C32 witness: the latest compatibility check was a congestion check's, the
\* network's function answered false in it, and the check has returned false
\* with no run left in flight.
C32_Witness ==
  /\ evaluation.fn = "getEIP1559Compatibility"
  /\ evaluation.item = "isNetworkCongested"
  /\ evaluation.network = "false"
  /\ evaluation.account = "true"
  /\ \A r \in RunIds : runs[r].pc = "idle"
  /\ lastCongestionResult = {FALSE}
  /\ pollQueue = {"isNetworkCongested"}

\* The blocks of a window that carry the 50th percentile, in order.
BlocksWithPercentile50(blocks) ==
  SelectSeq(blocks, LAMBDA block : 50 \in DOMAIN block.priorityFeesByPercentile)

\* C33: the flag the congestion check derives from a window equals the flag
\* of the window without its blocks that lack the 50th percentile, and it is
\* false when no block of the window carries that percentile (an empty
\* window included).
C33_BlocksWithoutPercentile50AreIgnored ==
  CongestionCheckReturned =>
    /\ evaluation.isNetworkCongested =
         CongestionOf(BlocksWithPercentile50(evaluation.blocks))
    /\ BlocksWithPercentile50(evaluation.blocks) = <<>> =>
         ~evaluation.isNetworkCongested
    /\ state.isNetworkCongested = evaluation.isNetworkCongested

\* C33 witness: a window of three blocks whose middle block lacks the 50th
\* percentile and whose other blocks carry the same fee has been found not
\* congested.
C33_Witness ==
  /\ CongestionCheckReturned
  /\ Len(evaluation.blocks) = 3
  /\ evaluation.blocks[1].priorityFeesByPercentile = [p \in {50} |-> 100]
  /\ evaluation.blocks[2].priorityFeesByPercentile = EmptyObject
  /\ evaluation.blocks[3].priorityFeesByPercentile = [p \in {50} |-> 100]
  /\ ~evaluation.isNetworkCongested

\* The step in which run r, waiting for one of the given sources, goes on.
SourceSettles(r, sources) ==
  /\ runs[r].pc \in sources
  /\ runs'[r] # runs[r]

\* C34: a step in which a source of the estimates producer settles leaves
\* isNetworkCongested as it was, and a step in which the fee history of the
\* congestion producer settles leaves gasFeeEstimates,
\* estimatedGasFeeTimeBounds and gasEstimateType as they were, whatever other
\* run is in flight.
C34_ProducersWriteDisjointFields ==
  [][ \A r \in RunIds :
        /\ SourceSettles(r, {"feeMarket", "legacy", "ethGasPrice"}) =>
             state'.isNetworkCongested = state.isNetworkCongested
        /\ SourceSettles(r, {"feeHistory"}) =>
             /\ state'.gasFeeEstimates = state.gasFeeEstimates
             /\ state'.estimatedGasFeeTimeBounds = state.estimatedGasFeeTimeBounds
             /\ state'.gasEstimateType = state.gasEstimateType
    ]_vars

\* C34 witness: both producers have committed, the congestion flag is true
\* beside fee-market estimates, and a congestion check is in flight again
\* while the estimates are.
C34_Witness ==
  /\ state.isNetworkCongested
  /\ state.gasEstimateType = GAS_ESTIMATE_TYPES.FEE_MARKET
  /\ \E r, q \in RunIds :
       /\ runs[r].pc = "feeHistory"
       /\ runs[q].pc = "feeMarket"

EstimateSources == {"feeMarket", "legacy", "ethGasPrice"}

\* C35: the state is written only in a step in which a producer's source
\* settles, so stopPollingFor, stopPolling and destroy write none of its four
\* fields; the three estimate fields change only when a source of the
\* estimates producer settles, and gasEstimateType, once it is not 'none',
\* never is 'none' again.
C35_StoppingWritesNoState ==
  [][ /\ state' # state =>
           \E r \in RunIds : SourceSettles(r, EstimateSources \cup {"feeHistory"})
      /\ ( \/ state'.gasFeeEstimates # state.gasFeeEstimates
           \/ state'.estimatedGasFeeTimeBounds # state.estimatedGasFeeTimeBounds
           \/ state'.gasEstimateType # state.gasEstimateType ) =>
           \E r \in RunIds : SourceSettles(r, EstimateSources)
      /\ state.gasEstimateType # GAS_ESTIMATE_TYPES.NONE =>
           state'.gasEstimateType # GAS_ESTIMATE_TYPES.NONE
    ]_vars

\* C35 witness: destroy() has returned on a controller that held legacy
\* estimates and a true congestion flag, and it holds them still.
C35_Witness ==
  /\ quiesced = "destroyed"
  /\ pollQueue = {}
  /\ \A r \in RunIds : runs[r].pc = "idle"
  /\ state.gasEstimateType = GAS_ESTIMATE_TYPES.LEGACY
  /\ state.gasFeeEstimates # EmptyObject
  /\ state.isNetworkCongested

\* The poll timers that are pending: the one this.intervalId names, if it has
\* not fired, and those nothing names any more.
PendingTimers == (IF intervalId = "live" THEN 1 ELSE 0) + orphanTimers

\* C36: at every moment at most one poll timer is pending.
C36_AtMostOnePendingTimer == PendingTimers <= 1

\* C37: whenever the poll queue holds an item, a poll timer is pending or the
\* batch of a tick is in flight, whose settling schedules the next timer.
C37_SubscribedItemHasFutureTick ==
  pollQueue # {} => (PendingTimers >= 1 \/ batches # {})

\* C37 witness: both items are queued, no timer is pending (the one
\* this.intervalId names has fired) and the tick's batch is in flight.
C37_Witness ==
  /\ pollQueue = Items
  /\ PendingTimers = 0
  /\ intervalId = "expired"
  /\ \E batch \in batches : batch.pending # {}

\* C38: an item enters the poll queue only in the step in which a run of its
\* producer started by updateWithAndStartPollingFor completes successfully;
\* in the step in which such a run fails the queue and the timers stay as
\* they were.
C38_ItemQueuedAfterSuccessfulFirstRun ==
  [][ /\ \A item \in pollQueue' \ pollQueue :
           \E r \in RunIds :
             /\ runs[r].pc \in InFlight
             /\ runs[r].origin = "subscribe"
             /\ runs[r].item = item
             /\ runs'[r].pc = "idle"
      /\ \A r \in RunIds :
           ( /\ runs[r].pc # "rejected"
             /\ runs'[r].pc = "rejected"
             /\ runs'[r].origin = "subscribe" ) =>
             /\ pollQueue' = pollQueue
             /\ intervalId' = intervalId
             /\ orphanTimers' = orphanTimers
    ]_vars

\* C38 witness: a call of updateWithAndStartPollingFor('gasFeeEstimates') has
\* failed after its last source, eth_gasPrice, threw; the queue is empty and
\* no timer is set.
C38_Witness ==
  /\ \E r \in RunIds :
       /\ runs[r].pc = "rejected"
       /\ runs[r].origin = "subscribe"
       /\ runs[r].item = "gasFeeEstimates"
       /\ "ethGasPrice" \in runs[r].called
  /\ pollQueue = {}
  /\ intervalId = "undefined"
  /\ orphanTimers = 0

\* Every block's priority fees do not decrease from one percentile to the
\* next.
FeesRiseWithPercentile(blocks) ==
  \A i \in 1..Len(blocks) :
    LET fees == blocks[i].priorityFeesByPercentile
    IN fees[10] <= fees[20] /\ fees[20] <= fees[30]

\* The numbers two decimal strings write are in order.
AtMost(lower, higher) == ~LessThan(DecimalValue(higher), DecimalValue(lower))

\* C39: for a fee history whose blocks' priority fees do not decrease from
\* the 10th to the 20th to the 30th percentile, the suggested priority fee
\* and the suggested max fee do not decrease from low to medium to high.
C39_EstimatesOrderedByTier ==
  ( /\ EstimatesSettled
    /\ evaluation.blocks # <<>>
    /\ FeesRiseWithPercentile(evaluation.blocks) ) =>
    /\ evaluation.result.outcome = "returned"
    /\ LET low == evaluation.result.low
           medium == evaluation.result.medium
           high == evaluation.result.high
       IN /\ AtMost(low.suggestedMaxPriorityFeePerGas,
                    medium.suggestedMaxPriorityFeePerGas)
          /\ AtMost(medium.suggestedMaxPriorityFeePerGas,
                    high.suggestedMaxPriorityFeePerGas)
          /\ AtMost(low.suggestedMaxFeePerGas, medium.suggestedMaxFeePerGas)
          /\ AtMost(medium.suggestedMaxFeePerGas, high.suggestedMaxFeePerGas)

\* C39 witness: two blocks that paid 250 (2.5 gwei) at every percentile; the
\* tiers suggest 2.35, 2.425 and 2.45 gwei.
C39_Witness ==
  /\ EstimatesSettled
  /\ Len(evaluation.blocks) = 2
  /\ \A i \in 1..2 : \A p \in {10, 20, 30} :
       evaluation.blocks[i].priorityFeesByPercentile[p] = 250
  /\ evaluation.result.outcome = "returned"
  /\ evaluation.result.low.suggestedMaxPriorityFeePerGas =
       <<"2", ".", "3", "5">>
  /\ evaluation.result.medium.suggestedMaxPriorityFeePerGas =
       <<"2", ".", "4", "2", "5">>
  /\ evaluation.result.high.suggestedMaxPriorityFeePerGas =
       <<"2", ".", "4", "5">>

DetectTokensReturned ==
  /\ evaluation.fn = "detectTokens"
  /\ evaluation.pc = "returned"

\* The slices submitted to a balance check that hold the address.
SlicesHolding(address) ==
  {k \in 1..Len(evaluation.submitted) :
     \E i \in 1..Len(evaluation.submitted[k]) :
       evaluation.submitted[k][i] = address}

\* C40: when detectTokens has returned on mainnet with a selected address,
\* every address of the token list that is not among the tracked tokens has
\* been submitted to a balance check in exactly one slice, whatever the size
\* of the token list.
C40_EveryUntrackedTokenSubmittedOnce ==
  ( /\ DetectTokensReturned
    /\ evaluation.networkType = MAINNET
    /\ ~evaluation.disabled
    /\ evaluation.selectedAddress # "" ) =>
    \A address \in RangeOf(evaluation.tokenList) \ evaluation.tokens :
      Cardinality(SlicesHolding(address)) = 1

====
